---- MODULE Spec2Model ----
(***************************************************************************)
(* Model of the galactic-bridge minter canister: the event-sourced state   *)
(* store of src/minter/src/state.rs, the update entry points of            *)
(* src/minter/src/lib.rs, and the mint and withdrawal flows that drive     *)
(* them.                                                                   *)
(*                                                                         *)
(* A panic!/assert!/ic_cdk::trap inside a canister message makes the       *)
(* replica discard every state change of that message execution, so a      *)
(* mutator is modelled as an operator that returns the state it has built  *)
(* together with a `panicked` flag, and Commit keeps the old state when    *)
(* the flag is set.                                                        *)
(***************************************************************************)
EXTENDS Integers, Sequences, FiniteSets, TLC

\* ------------------------------------------------------------------ bounds
NSigs == 2
MaxRetries == 2
MaxBurns == 2
NCalls == 3
MaxAmount == 2
NSignerNonces == 2
NChain == 3
LIMIT == 2
MaxUpgrades == 2
NActivations == 2
NRpcs == 2
NKeyCalls == 3
MaxBatch == 3
MaxTime == 6
MaxKeyRequests == 3
MaxOutcalls == 3

\* ------------------------------------------------------- program constants
\* u64 counters wrap (wrapping_add); the width is scaled to the integers the
\* model checker can represent, and no run of the model reaches it.
CounterModulus == 2147483647

\* Canister time is counted in seconds from StartTime, the time of install;
\* REFRESH_PROXY_TOKEN_INTERVAL (3600 s) is scaled to the times the model has.
StartTime == 2
REFRESH_PROXY_TOKEN_INTERVAL == 2

\* LAST_CHECK_MIN, the least time between two checks started by trigger_check,
\* scaled to the times the model has.
LAST_CHECK_MIN == 1

\* ------------------------------------------------------------------ values
Sigs == 1..NSigs
DepositIds == 0..(NSigs - 1)
BurnIds == 0..(MaxBurns - 1)
ChainSigs == 1..NChain
Principals == {"P1", "P2"}
Anonymous == "anonymous"
Callers == Principals \cup {Anonymous}
SolAddresses == {"Sol1", "Sol2"}
Amounts == 0..MaxAmount
SignerNonces == 1..NSignerNonces

\* Option<T>: None is the empty sequence, Some(x) the one-element sequence.
None == <<>>
Some(x) == <<x>>

\* HashMap insert / remove on a map kept as a function over its key set.
MapInsert(m, k, v) == [x \in (DOMAIN m) \cup {k} |-> IF x = k THEN v ELSE m[x]]
MapRemove(m, k) == [x \in (DOMAIN m) \ {k} |-> m[x]]
EmptyMap == <<>>

\* events::SolanaSignature, DepositEvent, WithdrawalEvent as the store uses them
SolanaSignature(sig) == [sol_sig |-> sig, retries |-> 0]
SolanaSignatureRange(before, until) ==
    [before_sol_sig |-> before, until_sol_sig |-> until, retries |-> 0]
DepositEvent(sig, id) == [sol_sig |-> sig, deposit_id |-> id, retries |-> 0]
WithdrawalEvent(id, from, to, amount) ==
    [burn_id |-> id, from_icp_address |-> from, to_sol_address |-> to,
     amount |-> amount, coupon |-> None, retries |-> 0]

\* withdraw::Coupon: the signed message (burn id, recipient, amount) and the
\* signature the threshold signer returned for it.
Coupon(id, to, amount, nonce) ==
    [burn_id |-> id, to_sol_address |-> to, amount |-> amount,
     signature |-> [message |-> <<id, to, amount>>, nonce |-> nonce]]

VARIABLES
    state,      \* the State struct held by the STATE thread-local
    ledger,     \* the destination ledger: memos of executed mints and burns
    transfers,  \* per deposit signature, the mint transfers the ledger executed
    mint,       \* the MintGSol task: its position and the call in flight
    calls,      \* the withdraw / get_coupon update calls and where each stands
    hist,       \* what the external collaborators have answered so far
    log,        \* the event log in stable memory, as the state it replays to
    tasks,      \* the timer activations and the task each one is running
    env         \* canister time, the thread-locals beside STATE, and the
                \* helper calls suspended on the signer

vars == <<state, ledger, transfers, mint, calls, hist, log, tasks, env>>

\* ------------------------------------------------------------- state store
Ok(st) == [st |-> st, panicked |-> FALSE]
Panic(st) == [st |-> st, panicked |-> TRUE]

\* The state a message execution leaves behind: a trap rolls it back.
Commit(old, r) == IF r.panicked THEN old ELSE r.st

record_solana_last_known_signature(st, sig) ==
    Ok([st EXCEPT !.solana_last_known_signature = Some(sig)])

get_solana_last_known_signature(st) ==
    IF st.solana_last_known_signature # None
    THEN st.solana_last_known_signature[1]
    ELSE st.solana_initial_signature

\* Mutant of record_or_retry_solana_signature: a known signature is replaced
\* by the one given.
record_or_retry_solana_signature_Overwrites(st, sig) ==
    Ok([st EXCEPT !.solana_signatures = MapInsert(@, sig.sol_sig, sig)])

record_or_retry_solana_signature(st, sig) ==
    IF sig.sol_sig \in DOMAIN st.solana_signatures
    THEN LET existing_signature == st.solana_signatures[sig.sol_sig]
         IN Ok([st EXCEPT !.solana_signatures =
                  MapInsert(MapRemove(@, sig.sol_sig), sig.sol_sig,
                            [existing_signature EXCEPT !.retries = @ + 1])])
    ELSE Ok([st EXCEPT !.solana_signatures = MapInsert(@, sig.sol_sig, sig)])

\* Mutant of record_invalid_event: an existing invalid event is replaced.
record_invalid_event_NoAssert(st, sig) ==
    LET key == sig.sol_sig
        removed == [st EXCEPT !.solana_signatures = MapRemove(@, key)]
    IN IF key \notin DOMAIN st.solana_signatures THEN Panic(st)
       ELSE Ok([removed EXCEPT !.invalid_events =
                  MapInsert(@, key, [sig EXCEPT !.retries = 0])])

record_invalid_event(st, sig) ==
    LET key == sig.sol_sig
        removed == [st EXCEPT !.solana_signatures = MapRemove(@, key)]
    IN IF key \notin DOMAIN st.solana_signatures THEN Panic(st)
       ELSE IF key \in DOMAIN removed.invalid_events THEN Panic(removed)
       ELSE Ok([removed EXCEPT !.invalid_events =
                  MapInsert(@, key, [sig EXCEPT !.retries = 0])])

record_or_retry_accepted_event(st, deposit) ==
    LET key == deposit.sol_sig
    IN IF key \notin DOMAIN st.accepted_events
       THEN IF key \in DOMAIN st.solana_signatures
            THEN Ok([st EXCEPT !.solana_signatures = MapRemove(@, key),
                               !.accepted_events = MapInsert(@, key, deposit)])
            ELSE Panic(st)
       ELSE LET existing_event == st.accepted_events[key]
            IN Ok([st EXCEPT !.accepted_events =
                     MapInsert(MapRemove(@, key), key,
                               [existing_event EXCEPT !.retries = @ + 1])])

\* Mutant of record_minted_event: the event need not be an accepted one.
record_minted_event_FromAnywhere(st, deposit) ==
    LET key == deposit.sol_sig
        removed == [st EXCEPT !.accepted_events = MapRemove(@, key)]
    IN IF key \in DOMAIN removed.minted_events THEN Panic(removed)
       ELSE Ok([removed EXCEPT !.minted_events =
                  MapInsert(@, key, [deposit EXCEPT !.retries = 0])])

record_minted_event(st, deposit) ==
    LET key == deposit.sol_sig
        removed == [st EXCEPT !.accepted_events = MapRemove(@, key)]
    IN IF key \notin DOMAIN st.accepted_events THEN Panic(st)
       ELSE IF key \in DOMAIN removed.minted_events THEN Panic(removed)
       ELSE Ok([removed EXCEPT !.minted_events =
                  MapInsert(@, key, [deposit EXCEPT !.retries = 0])])

record_or_retry_withdrawal_burned_event(st, withdrawal) ==
    LET key == withdrawal.burn_id
    IN IF key \notin DOMAIN st.withdrawal_burned_events
       THEN Ok([st EXCEPT !.withdrawal_burned_events = MapInsert(@, key, withdrawal)])
       ELSE LET event == st.withdrawal_burned_events[key]
            IN Ok([st EXCEPT !.withdrawal_burned_events =
                     MapInsert(MapRemove(@, key), key,
                               [event EXCEPT !.retries = @ + 1])])

\* Mutants of record_withdrawal_redeemed_event: it stores the event it took out
\* of the burned set instead of the one it was given; it leaves the event in
\* the burned set; it does not require the event to be in the burned set.
record_withdrawal_redeemed_event_StoresOld(st, withdrawal) ==
    LET key == withdrawal.burn_id
    IN IF key \in DOMAIN st.withdrawal_burned_events
       THEN Ok([st EXCEPT !.withdrawal_burned_events = MapRemove(@, key),
                          !.withdrawal_redeemed_events =
                              MapInsert(@, key, [st.withdrawal_burned_events[key]
                                                    EXCEPT !.retries = 0])])
       ELSE Panic(st)

record_withdrawal_redeemed_event_KeepsBurned(st, withdrawal) ==
    LET key == withdrawal.burn_id
    IN IF key \in DOMAIN st.withdrawal_burned_events
       THEN Ok([st EXCEPT !.withdrawal_redeemed_events =
                              MapInsert(@, key, [withdrawal EXCEPT !.retries = 0])])
       ELSE Panic(st)

record_withdrawal_redeemed_event_Unchecked(st, withdrawal) ==
    LET key == withdrawal.burn_id
    IN Ok([st EXCEPT !.withdrawal_burned_events = MapRemove(@, key),
                     !.withdrawal_redeemed_events =
                         MapInsert(@, key, [withdrawal EXCEPT !.retries = 0])])

record_withdrawal_redeemed_event(st, withdrawal) ==
    LET key == withdrawal.burn_id
    IN IF key \in DOMAIN st.withdrawal_burned_events
       THEN Ok([st EXCEPT !.withdrawal_burned_events = MapRemove(@, key),
                          !.withdrawal_redeemed_events =
                              MapInsert(@, key, [withdrawal EXCEPT !.retries = 0])])
       ELSE Panic(st)

\* next_deposit_id / next_burn_id: the id handed out and the state afterwards.
next_deposit_id(st) ==
    [id |-> st.deposit_id_counter,
     st |-> [st EXCEPT !.deposit_id_counter = (@ + 1) % CounterModulus]]

\* Mutant of next_burn_id: the counter is not advanced.
next_burn_id_NoIncrement(st) == [id |-> st.burn_id_counter, st |-> st]

next_burn_id(st) ==
    [id |-> st.burn_id_counter,
     st |-> [st EXCEPT !.burn_id_counter = (@ + 1) % CounterModulus]]

\* range_key formats "{before}-{until}"; signatures are base58 and hold no
\* '-', so the key is the pair.
range_key(start, end) == <<start, end>>

record_solana_signature_range(st, range) ==
    LET key == range_key(range.before_sol_sig, range.until_sol_sig)
    IN IF key \in DOMAIN st.solana_signature_ranges
       THEN Panic(st)
       ELSE Ok([st EXCEPT !.solana_signature_ranges = MapInsert(@, key, range)])

\* Mutant of retry_solana_signature_range: the new range takes over the retry
\* counter of the old one.
retry_solana_signature_range_InheritsRetries(st, old_range, new_range) ==
    LET old_key == range_key(old_range.before_sol_sig, old_range.until_sol_sig)
        removed == [st EXCEPT !.solana_signature_ranges = MapRemove(@, old_key)]
    IN IF old_key \notin DOMAIN st.solana_signature_ranges THEN Panic(st)
       ELSE IF new_range # None
       THEN record_solana_signature_range(removed,
                [new_range[1] EXCEPT !.retries =
                    st.solana_signature_ranges[old_key].retries])
       ELSE Ok([removed EXCEPT !.solana_signature_ranges =
                  MapInsert(@, old_key,
                            [st.solana_signature_ranges[old_key]
                                EXCEPT !.retries = @ + 1])])

retry_solana_signature_range(st, old_range, new_range) ==
    LET old_key == range_key(old_range.before_sol_sig, old_range.until_sol_sig)
        removed == [st EXCEPT !.solana_signature_ranges = MapRemove(@, old_key)]
    IN IF old_key \notin DOMAIN st.solana_signature_ranges THEN Panic(st)
       ELSE IF new_range # None
       THEN record_solana_signature_range(removed, new_range[1])
       ELSE Ok([removed EXCEPT !.solana_signature_ranges =
                  MapInsert(@, old_key,
                            [st.solana_signature_ranges[old_key]
                                EXCEPT !.retries = @ + 1])])

remove_solana_signature_range(st, range) ==
    LET key == range_key(range.before_sol_sig, range.until_sol_sig)
    IN IF key \in DOMAIN st.solana_signature_ranges
       THEN Ok([st EXCEPT !.solana_signature_ranges = MapRemove(@, key)])
       ELSE Panic(st)

\* str::trim on the strings of the model: a string of white space only
\* becomes the empty string.
trim(str) == IF str = " " THEN "" ELSE str

\* Signatures are numbered; this one stands for the empty string.
EmptySignature == -1

\* Mutant of validate_config: a blank key name passes.
validate_config_NoKeyName(st) ==
    /\ trim(st.solana_contract_address) # ""
    /\ st.solana_initial_signature # EmptySignature
    /\ st.minimum_withdrawal_amount # 0

\* validate_config: TRUE for Ok(()).
validate_config(st) ==
    /\ trim(st.ecdsa_key_name) # ""
    /\ trim(st.solana_contract_address) # ""
    /\ st.solana_initial_signature # EmptySignature
    /\ st.minimum_withdrawal_amount # 0

\* State::upgrade: each field the argument gives replaces the state's, then
\* the configuration is validated (an Err is a trap of its caller).
upgrade(st, upgrade_args) ==
    LET a == [st EXCEPT !.solana_contract_address =
                 IF upgrade_args.solana_contract_address # None
                 THEN upgrade_args.solana_contract_address[1] ELSE @]
        b == [a EXCEPT !.solana_initial_signature =
                 IF upgrade_args.solana_initial_signature # None
                 THEN upgrade_args.solana_initial_signature[1] ELSE @]
        c == [b EXCEPT !.ecdsa_key_name =
                 IF upgrade_args.ecdsa_key_name # None
                 THEN upgrade_args.ecdsa_key_name[1] ELSE @]
        d == [c EXCEPT !.minimum_withdrawal_amount =
                 IF upgrade_args.minimum_withdrawal_amount # None
                 THEN upgrade_args.minimum_withdrawal_amount[1] ELSE @]
    IN IF validate_config(d) THEN Ok(d) ELSE Panic(d)

\* Mutants of the counter setters: the counter restarts at zero.
set_deposit_id_counter_Zero(st, id) == Ok([st EXCEPT !.deposit_id_counter = 0])
set_burn_id_counter_Zero(st, id) == Ok([st EXCEPT !.burn_id_counter = 0])

set_deposit_id_counter(st, id) == Ok([st EXCEPT !.deposit_id_counter = id])

set_burn_id_counter(st, id) == Ok([st EXCEPT !.burn_id_counter = id])

\* -------------------------------------------------------------------- init
InitialState ==
    [solana_contract_address |-> "program_1",
     solana_initial_signature |-> 0,
     ecdsa_key_name |-> "key_1",
     minimum_withdrawal_amount |-> 1,
     solana_last_known_signature |-> None,
     solana_signature_ranges |-> EmptyMap,
     solana_signatures |-> EmptyMap,
     invalid_events |-> EmptyMap,
     accepted_events |-> EmptyMap,
     minted_events |-> EmptyMap,
     withdrawal_burned_events |-> EmptyMap,
     withdrawal_redeemed_events |-> EmptyMap,
     withdrawing_principals |-> {},
     deposit_id_counter |-> 0,
     burn_id_counter |-> 0,
     ecdsa_public_key |-> None,
     ecdsa_proxy_public_key |-> None,
     active_tasks |-> {}]

\* ------------------------------------------------------------- event log
Event(kind, payload) == [kind |-> kind, payload |-> payload]

\* The transition function an event stands for, the same at runtime and on
\* replay.
apply_state_transition(st, event) ==
    LET x == event.payload
    IN CASE event.kind = "LastKnownSolanaSignature" ->
                record_solana_last_known_signature(st, x)
         [] event.kind = "LastDepositIdCounter" -> set_deposit_id_counter(st, x)
         [] event.kind = "LastBurnIdCounter" -> set_burn_id_counter(st, x)
         [] event.kind = "SignatureRangeRecorded" -> record_solana_signature_range(st, x)
         [] event.kind = "SignatureRangeRetried" ->
                retry_solana_signature_range(st, x[1], x[2])
         [] event.kind = "SignatureRangeRemoved" -> remove_solana_signature_range(st, x)
         [] event.kind = "SignatureDiscovered" -> record_or_retry_solana_signature(st, x)
         [] event.kind = "InvalidEventRecorded" -> record_invalid_event(st, x)
         [] event.kind = "AcceptedEventRecorded" -> record_or_retry_accepted_event(st, x)
         [] event.kind = "MintedEventRecorded" -> record_minted_event(st, x)
         [] event.kind = "WithdrawalBurnedRecorded" ->
                record_or_retry_withdrawal_burned_event(st, x)
         [] event.kind = "WithdrawalRedeemedRecorded" ->
                record_withdrawal_redeemed_event(st, x)
         [] event.kind = "Upgrade" -> upgrade(st, x)
         [] event.kind = "Init" -> Panic(st)

\* The event log is held as the state its replay yields: replay applies the
\* events in order from the state Init built, so appending an event applies
\* its transition to what the stream before it replays to. A transition that
\* panics on replay makes the replay panic.
InitialLog == Ok(InitialState)

record_event(lg, event) ==
    IF lg.panicked THEN lg ELSE apply_state_transition(lg.st, event)

replay_events(lg) == lg

\* A mutation at runtime: the transition is applied and its event appended.
\* `sl` is the pair of the state and the log.
process_event(sl, event) ==
    LET r == apply_state_transition(sl.st, event)
    IN [st |-> r.st, log |-> record_event(sl.log, event), panicked |-> r.panicked]

\* What a message execution leaves of the state and the log: both are rolled
\* back by a trap.
Live == [st |-> state, log |-> log, panicked |-> FALSE]
Committed(r) ==
    /\ state' = IF r.panicked THEN state ELSE r.st
    /\ log' = IF r.panicked THEN log ELSE r.log

\* The task kinds in the order one activation runs them.
TaskOrder == <<"GetLatestSignature", "ScrapSignatureRanges", "ScrapSignatures", "MintGSol">>

\* setup_timers: one activation is spawned, about to run its first task. An
\* activation is at task `pos` of TaskOrder (0: not spawned or ended) and
\* `live` while its instance of that task holds the lock.
Activations == 1..NActivations
NoActivation == [pos |-> 0, live |-> FALSE]
setup_timers == [a \in Activations |-> IF a = 1 THEN [pos |-> 1, live |-> FALSE]
                                                ELSE NoActivation]

\* AGENT_TOKEN_N_EXPIRY: RefCell<(String, u64)>::default(). A token is known
\* by the expiry it was signed for.
InitialAgentToken == [token |-> None, expire_at |-> 0]

\* The lazy_call_ecdsa_public_key calls: the first is the install timer's,
\* the others are made for withdraw and get_coupon.
KeyCalls == 1..NKeyCalls

Rpcs == 1..NRpcs
IdleRpc == [pc |-> "idle", expire_at |-> 0, token |-> None, resigned |-> FALSE,
            outcall |-> 0]

\* CHAIN_ID: RefCell<[u8; 32]>::default(). A chain value is known by the
\* times it was hashed with, the all-zero value by the empty sequence.
InitialChainId == <<>>

NoResult == [tag |-> "none", coupon |-> None]
IdleCall ==
    [kind |-> "none", pc |-> "idle", caller |-> Anonymous, args |-> <<>>,
     event |-> None, during |-> {}, result |-> NoResult]

Init ==
    /\ state = InitialState
    /\ ledger = [mint_memos |-> {}, burn_memos |-> {}]
    /\ transfers = [s \in Sigs |-> 0]
    /\ mint = [pc |-> "idle", deposit |-> None, reply |-> "none"]
    /\ calls = [c \in 1..NCalls |-> IdleCall]
    /\ hist = [recorded |-> {}, burn_ok |-> {}, burn_failed |-> {}, signed |-> {},
                crashed |-> {}, exhausted |-> {}, upgrades |-> 0, last_call |-> None,
                entered |-> EmptyMap, last_check |-> None, last_ok |-> None,
                prev_ok |-> None, outcalls |-> <<>>]
    /\ log = InitialLog
    /\ tasks = [act |-> setup_timers]
    /\ env = [time |-> StartTime,
              AGENT_TOKEN_N_EXPIRY |-> InitialAgentToken,
              rpcs |-> [r \in Rpcs |-> IdleRpc],
              key_calls |-> [k \in KeyCalls |-> "idle"],
              key_requests |-> 0,
              batch |-> None,
              LAST_CHECKED |-> 0,
              CHAIN_ID |-> InitialChainId]

\* --------------------------------------- the store driven call by call
\* Each mutator of the deposit lifecycle called with any argument, as one
\* message execution each.
StoreDiscover(s) ==
    /\ s \in DOMAIN state.solana_signatures => state.solana_signatures[s].retries < MaxRetries
    /\ state' = Commit(state, record_or_retry_solana_signature(state, SolanaSignature(s)))
    /\ UNCHANGED <<ledger, transfers, mint, calls, hist, log, tasks, env>>

StoreInvalid(s) ==
    /\ state' = Commit(state, record_invalid_event(state, SolanaSignature(s)))
    /\ UNCHANGED <<ledger, transfers, mint, calls, hist, log, tasks, env>>

StoreAccepted(s, id) ==
    /\ s \in DOMAIN state.accepted_events => state.accepted_events[s].retries < MaxRetries
    /\ state' = Commit(state, record_or_retry_accepted_event(state, DepositEvent(s, id)))
    /\ UNCHANGED <<ledger, transfers, mint, calls, hist, log, tasks, env>>

StoreMinted(s, id) ==
    /\ state' = Commit(state, record_minted_event(state, DepositEvent(s, id)))
    /\ UNCHANGED <<ledger, transfers, mint, calls, hist, log, tasks, env>>

DepositStoreNext ==
    \E s \in Sigs :
        \/ StoreDiscover(s)
        \/ StoreInvalid(s)
        \/ \E id \in DepositIds : StoreAccepted(s, id)
        \/ \E id \in DepositIds : StoreMinted(s, id)

SpecDepositStore == Init /\ [][DepositStoreNext]_vars

\* Each mutator of the withdrawal lifecycle called with any argument.
StoreWithdrawalEvents ==
    LET bare == {WithdrawalEvent(id, p, "Sol1", state.minimum_withdrawal_amount) :
                    id \in BurnIds, p \in Principals}
    IN bare \cup {[w EXCEPT !.coupon =
                      Some(Coupon(w.burn_id, w.to_sol_address, w.amount, 1))] : w \in bare}

StoreBurned(w) ==
    /\ w.burn_id \in DOMAIN state.withdrawal_burned_events =>
           state.withdrawal_burned_events[w.burn_id].retries < MaxRetries
    /\ state' = Commit(state, record_or_retry_withdrawal_burned_event(state, w))
    /\ hist' = [hist EXCEPT !.recorded = @ \cup {w.burn_id}]
    /\ UNCHANGED <<ledger, transfers, mint, calls, log, tasks, env>>

StoreRedeemed(w) ==
    /\ state' = Commit(state, record_withdrawal_redeemed_event(state, w))
    /\ UNCHANGED <<ledger, transfers, mint, calls, hist, log, tasks, env>>

WithdrawalStoreNext ==
    \/ \E w \in StoreWithdrawalEvents : StoreBurned(w)
    \/ \E w \in StoreWithdrawalEvents : StoreRedeemed(w)

SpecWithdrawalStore == Init /\ [][WithdrawalStoreNext]_vars

\* Every mutator of the store called with any argument, one call a message
\* execution; the call and whether it panicked are remembered.
StoreRanges == {SolanaSignatureRange(before, 0) : before \in Sigs}

StoreCalls ==
    {Event("SignatureDiscovered", SolanaSignature(1)),
     Event("InvalidEventRecorded", SolanaSignature(1)),
     Event("AcceptedEventRecorded", DepositEvent(1, 0)),
     Event("MintedEventRecorded", DepositEvent(1, 0)),
     Event("WithdrawalBurnedRecorded", WithdrawalEvent(0, "P1", "Sol1", 1)),
     Event("WithdrawalRedeemedRecorded",
           [WithdrawalEvent(0, "P1", "Sol1", 1) EXCEPT
               !.coupon = Some(Coupon(0, "Sol1", 1, 1))])}
    \cup {Event("SignatureRangeRecorded", r) : r \in StoreRanges}
    \cup {Event("SignatureRangeRemoved", r) : r \in StoreRanges}
    \cup {Event("SignatureRangeRetried", <<old, new>>) :
             old \in StoreRanges, new \in {None} \cup {Some(r) : r \in StoreRanges}}

\* The retry counter the call would increment, if it increments one.
RetriedEntry(st, event) ==
    LET x == event.payload
    IN CASE event.kind = "SignatureDiscovered" /\ x.sol_sig \in DOMAIN st.solana_signatures ->
                Some(st.solana_signatures[x.sol_sig])
         [] event.kind = "AcceptedEventRecorded" /\ x.sol_sig \in DOMAIN st.accepted_events ->
                Some(st.accepted_events[x.sol_sig])
         [] event.kind = "WithdrawalBurnedRecorded"
                /\ x.burn_id \in DOMAIN st.withdrawal_burned_events ->
                Some(st.withdrawal_burned_events[x.burn_id])
         [] event.kind = "SignatureRangeRetried" /\ x[2] = None
                /\ range_key(x[1].before_sol_sig, x[1].until_sol_sig)
                       \in DOMAIN st.solana_signature_ranges ->
                Some(st.solana_signature_ranges[
                        range_key(x[1].before_sol_sig, x[1].until_sol_sig)])
         [] OTHER -> None

StoreCall(event) ==
    /\ RetriedEntry(state, event) # None =>
           RetriedEntry(state, event)[1].retries < MaxRetries
    /\ LET r == apply_state_transition(state, event)
       IN /\ state' = Commit(state, r)
          /\ hist' = [hist EXCEPT !.last_call =
                          Some([event |-> event, panicked |-> r.panicked])]
    /\ UNCHANGED <<ledger, transfers, mint, calls, log, tasks, env>>

StoreNext == \E event \in StoreCalls : StoreCall(event)

SpecStore == Init /\ [][StoreNext]_vars

\* ------------------------------------------------- withdrawal engine
\* is_allowed_canister: the caller is the BTOWN canister or a controller.
is_allowed_canister(caller) == caller \in Principals

\* validate_caller_not_anonymous traps on the anonymous principal.
validate_caller_not_anonymous(caller) == caller # Anonymous

\* Mutant of is_over_limit: an amount equal to the minimum traps too.
is_over_limit_OffByOne(st, withdraw_amount) ==
    st.minimum_withdrawal_amount >= withdraw_amount

\* is_over_limit traps when minimum.cmp(amount) is Greater.
is_over_limit(st, withdraw_amount) == st.minimum_withdrawal_amount > withdraw_amount

\* Mutant of acquire_withdraw_slot: a held slot is not noticed.
acquire_withdraw_slot_NeverBusy(st, principal) ==
    [ok |-> TRUE, st |-> [st EXCEPT !.withdrawing_principals = @ \cup {principal}]]

\* The per-principal slot in withdrawing_principals.
acquire_withdraw_slot(st, principal) ==
    IF principal \in st.withdrawing_principals
    THEN [ok |-> FALSE, st |-> st]
    ELSE [ok |-> TRUE, st |-> [st EXCEPT !.withdrawing_principals = @ \cup {principal}]]

release_withdraw_slot(st, principal) ==
    [st EXCEPT !.withdrawing_principals = @ \ {principal}]

Done(call, tag, coupon) ==
    [call EXCEPT !.pc = "done", !.result = [tag |-> tag, coupon |-> coupon]]

\* The withdraw calls of `principal` that are suspended at the ledger burn or
\* at the signing call.
SuspendedWithdraws(principal) ==
    {c \in DOMAIN calls : /\ calls[c].kind = "withdraw"
                          /\ calls[c].caller = principal
                          /\ calls[c].pc \in {"burn", "sign"}}

\* withdraw, from the call's arrival to its first suspension: the guard, the
\* two checks of lib.rs, then the slot, the burn id and the ledger burn call.
Withdraw(c, caller, solana_address, withdraw_amount) ==
    /\ calls[c].pc = "idle"
    /\ caller \notin state.withdrawing_principals => state.burn_id_counter < MaxBurns
    /\ LET call == [calls[c] EXCEPT !.kind = "withdraw", !.caller = caller,
                                    !.args = <<solana_address, withdraw_amount>>,
                                    !.during = SuspendedWithdraws(caller)]
           slot == acquire_withdraw_slot(state, caller)
           next == next_burn_id(slot.st)
       IN IF \/ ~is_allowed_canister(caller)
             \/ ~validate_caller_not_anonymous(caller)
             \/ is_over_limit(state, withdraw_amount)
          THEN /\ calls' = [calls EXCEPT ![c] = Done(call, "Rejected", None)]
               /\ UNCHANGED state
          ELSE IF ~slot.ok
          THEN /\ calls' = [calls EXCEPT ![c] = Done(call, "AlreadyProcessing", None)]
               /\ state' = slot.st
          ELSE /\ calls' = [calls EXCEPT ![c] =
                              [call EXCEPT !.pc = "burn",
                                           !.event = Some(WithdrawalEvent(
                                               next.id, caller, solana_address,
                                               withdraw_amount))]]
               /\ state' = next.st
    /\ UNCHANGED <<ledger, transfers, mint, hist, log, tasks, env>>

\* The ledger's reply to the burn: on failure the slot is released and the
\* error returned; on success the burned event is recorded and the coupon is
\* sent for signing.
WithdrawBurnReply(c, ok) ==
    /\ calls[c].kind = "withdraw" /\ calls[c].pc = "burn"
    /\ LET event == calls[c].event[1]
       IN IF ok
          THEN /\ ledger' = [ledger EXCEPT !.burn_memos = @ \cup {event.burn_id}]
               /\ hist' = [hist EXCEPT
                      !.burn_ok = @ \cup {event.burn_id},
                      !.recorded = @ \cup {event.burn_id},
                      !.entered = IF event.burn_id \in DOMAIN @ THEN @
                                  ELSE MapInsert(@, event.burn_id, event)]
               /\ Committed(process_event(Live,
                                Event("WithdrawalBurnedRecorded", event)))
               /\ calls' = [calls EXCEPT ![c].pc = "sign"]
          ELSE /\ hist' = [hist EXCEPT !.burn_failed = @ \cup {event.burn_id}]
               /\ state' = release_withdraw_slot(state, event.from_icp_address)
               /\ calls' = [calls EXCEPT ![c] = Done(@, "BurnFailed", None)]
               /\ UNCHANGED <<ledger, log>>
    /\ UNCHANGED <<transfers, mint, tasks, env>>

\* Mutant of on_sign_failure: the slot is given back.
on_sign_failure_ReleasesSlot(st, principal) ==
    [st EXCEPT !.withdrawing_principals = @ \ {principal}]

\* The state a call leaves when the signer failed: the burned event stays as
\* it is for get_coupon, and the principal's slot is not given back.
on_sign_failure(st, principal) == st

\* What a call does with the signer's reply: a signature makes the coupon,
\* which is recorded with the redeemed event; `release` tells whether the
\* call holds the principal's slot and gives it back.
SignReply(c, ok, nonce, release) ==
    LET event == calls[c].event[1]
        coupon == Coupon(event.burn_id, event.to_sol_address, event.amount, nonce)
        r == process_event(Live, Event("WithdrawalRedeemedRecorded",
                                       [event EXCEPT !.coupon = Some(coupon)]))
    IN IF ~ok
       THEN /\ calls' = [calls EXCEPT ![c] = Done(@, "SignFailed", None)]
            /\ state' = on_sign_failure(state, event.from_icp_address)
            /\ UNCHANGED <<hist, log>>
       ELSE /\ hist' = [hist EXCEPT !.signed = @ \cup {event.burn_id}]
            /\ IF r.panicked
               THEN /\ calls' = [calls EXCEPT ![c] = Done(@, "Trapped", None)]
                    /\ UNCHANGED <<state, log>>
               ELSE /\ calls' = [calls EXCEPT ![c] = Done(@, "Coupon", Some(coupon))]
                    /\ log' = r.log
                    /\ state' = IF release
                                THEN release_withdraw_slot(r.st, event.from_icp_address)
                                ELSE r.st

WithdrawSignReply(c, ok, nonce) ==
    /\ calls[c].kind = "withdraw" /\ calls[c].pc = "sign"
    /\ SignReply(c, ok, nonce, TRUE)
    /\ UNCHANGED <<ledger, transfers, mint, tasks, env>>

\* Mutant of belongs_to: every withdrawal passes for the caller's own.
belongs_to_Anyone(withdrawal, caller) == withdrawal.burn_id = withdrawal.burn_id

\* The ownership check of get_coupon on the withdrawal it located.
belongs_to(withdrawal, caller) == withdrawal.from_icp_address = caller

\* get_coupon, from the call's arrival to its return or to the signing call.
GetCoupon(c, caller, burn_id) ==
    /\ calls[c].pc = "idle"
    /\ LET call == [calls[c] EXCEPT !.kind = "get_coupon", !.caller = caller,
                                    !.args = <<burn_id>>]
           redeemed == state.withdrawal_redeemed_events
           burned == state.withdrawal_burned_events
       IN calls' = [calls EXCEPT ![c] =
            IF ~is_allowed_canister(caller) \/ ~validate_caller_not_anonymous(caller)
            THEN Done(call, "Rejected", None)
            ELSE IF burn_id \in DOMAIN redeemed
            THEN IF ~belongs_to(redeemed[burn_id], caller)
                 THEN Done(call, "Unauthorized", None)
                 ELSE Done(call, "Coupon", redeemed[burn_id].coupon)
            ELSE IF burn_id \in DOMAIN burned
            THEN IF ~belongs_to(burned[burn_id], caller)
                 THEN Done(call, "Unauthorized", None)
                 ELSE [call EXCEPT !.pc = "sign", !.event = Some(burned[burn_id])]
            ELSE Done(call, "NotFound", None)]
    /\ UNCHANGED <<state, ledger, transfers, mint, hist, log, tasks, env>>

GetCouponSignReply(c, ok, nonce) ==
    /\ calls[c].kind = "get_coupon" /\ calls[c].pc = "sign"
    /\ SignReply(c, ok, nonce, FALSE)
    /\ UNCHANGED <<ledger, transfers, mint, tasks, env>>

WithdrawNext ==
    \/ \E c \in DOMAIN calls, caller \in Callers, to \in SolAddresses, amount \in Amounts :
          Withdraw(c, caller, to, amount)
    \/ \E c \in DOMAIN calls, ok \in BOOLEAN : WithdrawBurnReply(c, ok)
    \/ \E c \in DOMAIN calls, ok \in BOOLEAN, nonce \in SignerNonces :
          WithdrawSignReply(c, ok, nonce)
    \/ \E c \in DOMAIN calls, caller \in Callers, id \in BurnIds :
          GetCoupon(c, caller, id)
    \/ \E c \in DOMAIN calls, ok \in BOOLEAN, nonce \in SignerNonces :
          GetCouponSignReply(c, ok, nonce)

SpecWithdraw == Init /\ [][WithdrawNext]_vars

\* ------------------------------------------------------ deposit pipeline
\* Mutant of LedgerMemo: the memo does not carry the id.
LedgerMemo_Constant(deposit_id) == <<0>>

\* LedgerMemo(u64) -> Memo: the CBOR bytes of an unsigned integer (serde_cbor
\* writes the newtype as its inner value). Ids of the model fit 32 bits.
LedgerMemo(deposit_id) ==
    IF deposit_id < 24 THEN <<deposit_id>>
    ELSE IF deposit_id < 256 THEN <<24, deposit_id>>
    ELSE IF deposit_id < 65536 THEN <<25, deposit_id \div 256, deposit_id % 256>>
    ELSE <<26, deposit_id \div 16777216, (deposit_id \div 65536) % 256,
           (deposit_id \div 256) % 256, deposit_id % 256>>

\* getSignaturesForAddress as the source chain answers it when its newest
\* signature is `head`: the signatures newer than `until` (and older than
\* `before`, when given), newest first, at most `limit` of them.
get_signatures_for_address(head, limit, before, until) ==
    LET newest == IF before = None THEN head ELSE before[1] - 1
        k == IF newest - until > limit THEN limit
             ELSE IF newest > until THEN newest - until ELSE 0
    IN [i \in 1..k |-> SolanaSignature(newest - i + 1)]

\* The next mutation of a message execution: nothing more after a panic.
Then(sl, event) == IF sl.panicked THEN sl ELSE process_event(sl, event)

RECURSIVE RecordPage(_, _)
RecordPage(sl, page) ==
    IF page = <<>> THEN sl
    ELSE RecordPage(Then(sl, Event("SignatureDiscovered", Head(page))), Tail(page))

\* Mutant of get_latest_signature: a full page records no range.
get_latest_signature_NoRange(sl, page) ==
    IF page = <<>> THEN sl
    ELSE Then(RecordPage(sl, page), Event("LastKnownSolanaSignature", page[1].sol_sig))

\* One run of signature discovery on the page the RPC returned: an empty page
\* ends the run; otherwise each signature is recorded, a page of LIMIT
\* signatures records the range from its oldest signature down to the
\* watermark, and the watermark moves to the newest signature.
get_latest_signature(sl, page) ==
    LET until == get_solana_last_known_signature(sl.st)
        recorded == RecordPage(sl, page)
        ranged == IF Len(page) = LIMIT
                  THEN Then(recorded, Event("SignatureRangeRecorded",
                           SolanaSignatureRange(page[Len(page)].sol_sig, until)))
                  ELSE recorded
    IN IF page = <<>> THEN sl
       ELSE Then(ranged, Event("LastKnownSolanaSignature", page[1].sol_sig))

GetLatestSignature(head) ==
    /\ head >= get_solana_last_known_signature(state)
    /\ LET until == get_solana_last_known_signature(state)
           page == get_signatures_for_address(head, LIMIT, None, until)
       IN Committed(get_latest_signature(Live, page))
    /\ UNCHANGED <<ledger, transfers, mint, calls, hist, tasks, env>>

\* One range of the range resolver on the RPC's answer. A page is recorded
\* and, when full, the range is replaced by the sub-range below the page's
\* oldest signature, else removed as resolved. A failure is one more retry,
\* and a range out of retries is dropped.
\* Mutant of scrap_signature_range: a range out of retries starts over instead
\* of being dropped.
scrap_signature_range_NeverDrops(sl, range, ok, page) ==
    IF ok
    THEN IF Len(page) = LIMIT
         THEN Then(RecordPage(sl, page), Event("SignatureRangeRetried",
                  <<range, Some(SolanaSignatureRange(page[Len(page)].sol_sig,
                                                     range.until_sol_sig))>>))
         ELSE Then(RecordPage(sl, page), Event("SignatureRangeRemoved", range))
    ELSE IF range.retries < MaxRetries
         THEN Then(sl, Event("SignatureRangeRetried", <<range, None>>))
         ELSE Then(sl, Event("SignatureRangeRetried",
                             <<range, Some([range EXCEPT !.retries = 0])>>))

scrap_signature_range(sl, range, ok, page) ==
    IF ok
    THEN IF Len(page) = LIMIT
         THEN Then(RecordPage(sl, page), Event("SignatureRangeRetried",
                  <<range, Some(SolanaSignatureRange(page[Len(page)].sol_sig,
                                                     range.until_sol_sig))>>))
         ELSE Then(RecordPage(sl, page), Event("SignatureRangeRemoved", range))
    ELSE IF range.retries < MaxRetries
         THEN Then(sl, Event("SignatureRangeRetried", <<range, None>>))
         ELSE Then(sl, Event("SignatureRangeRemoved", range))

ScrapSignatureRange(key, ok) ==
    /\ key \in DOMAIN state.solana_signature_ranges
    /\ LET range == state.solana_signature_ranges[key]
           page == get_signatures_for_address(range.before_sol_sig, LIMIT,
                       Some(range.before_sol_sig), range.until_sol_sig)
       IN /\ Committed(scrap_signature_range(Live, range, ok, page))
          /\ hist' = IF ~ok /\ range.retries >= MaxRetries
                     THEN [hist EXCEPT !.exhausted = @ \cup {range}]
                     ELSE hist
    /\ UNCHANGED <<ledger, transfers, mint, calls, tasks, env>>

RangeKeys == {range_key(before, until) : before \in ChainSigs, until \in 0..NChain}

\* The classifier's verdict on one fetched signature: a valid deposit gets the
\* next deposit id and is accepted, an invalid one is recorded as invalid, a
\* failed fetch is retried.
ScrapSignature(s, verdict) ==
    /\ s \in DOMAIN state.solana_signatures
    /\ LET sig == state.solana_signatures[s]
           next == next_deposit_id(state)
       IN CASE verdict = "valid" ->
                 Committed(process_event([Live EXCEPT !.st = next.st],
                     Event("AcceptedEventRecorded", DepositEvent(s, next.id))))
            [] verdict = "invalid" ->
                 Committed(process_event(Live, Event("InvalidEventRecorded", sig)))
            [] verdict = "unavailable" ->
                 /\ sig.retries < MaxRetries
                 /\ Committed(process_event(Live, Event("SignatureDiscovered", sig)))
    /\ UNCHANGED <<ledger, transfers, mint, calls, hist, tasks, env>>

\* Discovery, range resolution and classification against a source chain of
\* NChain signatures, numbered oldest to newest after the initial signature 0.
DiscoveryNext ==
    \/ \E head \in 0..NChain : GetLatestSignature(head)
    \/ \E key \in RangeKeys, ok \in BOOLEAN : ScrapSignatureRange(key, ok)
    \/ \E s \in ChainSigs, verdict \in {"valid", "invalid", "unavailable"} :
          ScrapSignature(s, verdict)

SpecDiscovery == Init /\ [][DiscoveryNext]_vars

\* Fair scheduling of the range resolver: a range that stays pending is
\* processed by a ScrapSignatureRanges cycle sooner or later.
SpecDiscoveryFair ==
    /\ SpecDiscovery
    /\ \A key \in RangeKeys : WF_vars(\E ok \in BOOLEAN : ScrapSignatureRange(key, ok))

\* MintGSol takes an accepted event and calls the ledger with the memo of its
\* deposit id.
MintStart(s) ==
    /\ mint.pc = "idle"
    /\ s \in DOMAIN state.accepted_events
    /\ mint' = [pc |-> "call", deposit |-> Some(state.accepted_events[s]),
                reply |-> "none"]
    /\ UNCHANGED <<state, ledger, transfers, calls, hist, log, tasks, env>>

\* The destination ledger: a memo it has executed is refused as a duplicate;
\* otherwise the transfer is executed, or fails for a while, or for good.
LedgerTransfer(outcome) ==
    /\ mint.pc = "call"
    /\ LET deposit == mint.deposit[1]
           memo == LedgerMemo(deposit.deposit_id)
       IN IF memo \in ledger.mint_memos
          THEN /\ mint' = [mint EXCEPT !.pc = "reply", !.reply = "Duplicate"]
               /\ UNCHANGED <<ledger, transfers>>
          ELSE /\ mint' = [mint EXCEPT !.pc = "reply", !.reply = outcome]
               /\ outcome = "TemporarilyUnavailable" => deposit.retries < MaxRetries
               /\ IF outcome = "Ok"
                  THEN /\ ledger' = [ledger EXCEPT !.mint_memos = @ \cup {memo}]
                       /\ transfers' = [transfers EXCEPT ![deposit.sol_sig] = @ + 1]
                  ELSE UNCHANGED <<ledger, transfers>>
    /\ UNCHANGED <<state, calls, hist, log, tasks, env>>

\* MintGSol on the ledger's reply.
MintReply ==
    /\ mint.pc = "reply"
    /\ LET deposit == mint.deposit[1]
       IN CASE mint.reply \in {"Ok", "Duplicate"} ->
                 Committed(process_event(Live, Event("MintedEventRecorded", deposit)))
            [] mint.reply = "TemporarilyUnavailable" ->
                 Committed(process_event(Live, Event("AcceptedEventRecorded", deposit)))
            [] mint.reply = "Rejected" ->
                 Committed(process_event(Live, Event("InvalidEventRecorded",
                                                     SolanaSignature(deposit.sol_sig))))
    /\ mint' = [pc |-> "idle", deposit |-> None, reply |-> "none"]
    /\ UNCHANGED <<ledger, transfers, calls, hist, tasks, env>>

\* The canister stops between the ledger's success reply and the append of
\* the minted event: nothing of the reply's handling is kept.
MintCrash ==
    /\ mint.pc = "reply" /\ mint.reply = "Ok"
    /\ hist' = [hist EXCEPT !.crashed = @ \cup {mint.deposit[1].sol_sig}]
    /\ mint' = [pc |-> "idle", deposit |-> None, reply |-> "none"]
    /\ UNCHANGED <<state, ledger, transfers, calls, log, tasks, env>>

MintNext ==
    \/ \E head \in Sigs : GetLatestSignature(head)
    \/ \E s \in Sigs, verdict \in {"valid", "invalid", "unavailable"} :
          ScrapSignature(s, verdict)
    \/ \E s \in Sigs : MintStart(s)
    \/ \E outcome \in {"Ok", "TemporarilyUnavailable", "Rejected"} :
          LedgerTransfer(outcome)
    \/ MintReply
    \/ MintCrash

SpecMint == Init /\ [][MintNext]_vars

\* ------------------------------------------------------------ timer tasks
\* Mutant of acquire_task_guard: a held lock is not noticed.
acquire_task_guard_NeverBusy(st, kind) ==
    [ok |-> TRUE, st |-> [st EXCEPT !.active_tasks = @ \cup {kind}]]

\* The lock of a task kind in active_tasks, taken when an instance starts and
\* given back when its cycle ends.
acquire_task_guard(st, kind) ==
    IF kind \in st.active_tasks
    THEN [ok |-> FALSE, st |-> st]
    ELSE [ok |-> TRUE, st |-> [st EXCEPT !.active_tasks = @ \cup {kind}]]

release_task_guard(st, kind) == [st EXCEPT !.active_tasks = @ \ {kind}]

KindOf(a) == TaskOrder[tasks.act[a].pos]

\* The activation moves on to its next task, or ends after the last one.
NextTask(act) ==
    [pos |-> IF act.pos = Len(TaskOrder) THEN 0 ELSE act.pos + 1, live |-> FALSE]

LiveIn(kind) ==
    \E a \in Activations :
        tasks.act[a].pos > 0 /\ tasks.act[a].live /\ KindOf(a) = kind

\* ic_cdk::api::time() moves on.
TimePasses ==
    /\ env.time < MaxTime
    /\ env' = [env EXCEPT !.time = @ + 1]
    /\ UNCHANGED <<state, ledger, transfers, mint, calls, hist, log, tasks>>

\* Mutant of last_check_is_old: a check at exactly LAST_CHECK_MIN passes.
last_check_is_old_OffByOne(now, last_checked) == now - last_checked >= LAST_CHECK_MIN

\* The test of trigger_check on LAST_CHECKED.
last_check_is_old(now, last_checked) == now - last_checked > LAST_CHECK_MIN

\* trigger_check: a caller that is_allowed_canister refuses is rejected before
\* the body runs. When the last check is old enough an activation is scheduled
\* and LAST_CHECKED is set to the time of the call; otherwise the call returns
\* the error before either. hist keeps the result of the call, and for the
\* last two calls that returned Ok their time and the upgrades before them.
TriggerCheck(a, caller) ==
    /\ is_allowed_canister(caller)
    /\ IF last_check_is_old(env.time, env.LAST_CHECKED)
       THEN /\ tasks.act[a].pos = 0
            /\ tasks' = [tasks EXCEPT !.act[a] = [pos |-> 1, live |-> FALSE]]
            /\ env' = [env EXCEPT !.LAST_CHECKED = env.time]
            /\ hist' = [hist EXCEPT
                   !.last_check = Some([result |-> "Ok", at |-> env.time]),
                   !.last_ok = Some([at |-> env.time, upgrades |-> hist.upgrades]),
                   !.prev_ok = hist.last_ok]
       ELSE /\ hist' = [hist EXCEPT
                   !.last_check = Some([result |-> "last check was too recent",
                                        at |-> env.time])]
            /\ UNCHANGED <<tasks, env>>
    /\ UNCHANGED <<state, ledger, transfers, mint, calls, log>>

\* An activation reaches its next task: the task takes its lock and starts,
\* or finds the lock held and returns at once.
TaskFire(a) ==
    /\ tasks.act[a].pos > 0 /\ ~tasks.act[a].live
    /\ LET guard == acquire_task_guard(state, KindOf(a))
       IN /\ state' = guard.st
          /\ tasks' = [tasks EXCEPT !.act[a] =
                          IF guard.ok THEN [@ EXCEPT !.live = TRUE] ELSE NextTask(@)]
    /\ UNCHANGED <<ledger, transfers, mint, calls, hist, log, env>>

\* The cycle of a live task ends: the lock is given back.
TaskEnd(a) ==
    /\ tasks.act[a].pos > 0 /\ tasks.act[a].live
    /\ KindOf(a) = "MintGSol" => mint.pc = "idle"
    /\ state' = release_task_guard(state, KindOf(a))
    /\ tasks' = [tasks EXCEPT !.act[a] = NextTask(@)]
    /\ UNCHANGED <<ledger, transfers, mint, calls, hist, log, env>>

\* The timer tasks within one period of trigger_check: activations of
\* setup_timers and trigger_check, and the steps of each task while an
\* instance of it is live.
TasksNext ==
    \/ \E a \in Activations, caller \in Callers : TriggerCheck(a, caller)
    \/ \E a \in Activations : TaskFire(a)
    \/ \E a \in Activations : TaskEnd(a)
    \/ \E head \in Sigs : LiveIn("GetLatestSignature") /\ GetLatestSignature(head)
    \/ \E key \in RangeKeys, ok \in BOOLEAN :
          LiveIn("ScrapSignatureRanges") /\ ScrapSignatureRange(key, ok)
    \/ \E s \in Sigs, verdict \in {"valid", "invalid", "unavailable"} :
          LiveIn("ScrapSignatures") /\ ScrapSignature(s, verdict)
    \/ \E s \in Sigs : LiveIn("MintGSol") /\ MintStart(s)
    \/ \E outcome \in {"Ok", "TemporarilyUnavailable", "Rejected"} :
          LiveIn("MintGSol") /\ LedgerTransfer(outcome)
    \/ LiveIn("MintGSol") /\ MintReply

SpecTasks == Init /\ [][TasksNext]_vars

\* ------------------------------------------------------------ proxy token
\* The test of get_agent_token on the cached expiry.
token_expired(expire_at, now) == expire_at < now

\* get_agent_token up to its return or its suspension on the signer: an
\* unexpired token is returned as cached; otherwise a token is sent for
\* signing with the new expiry plus 120 seconds.
GetAgentToken(r) ==
    /\ env.rpcs[r].pc = "idle"
    /\ LET cached == env.AGENT_TOKEN_N_EXPIRY
       IN env' = [env EXCEPT !.rpcs[r] =
            IF token_expired(cached.expire_at, env.time)
            THEN [pc |-> "sign", expire_at |-> env.time + REFRESH_PROXY_TOKEN_INTERVAL,
                  token |-> None, resigned |-> TRUE, outcall |-> 0]
            ELSE [pc |-> "done", expire_at |-> cached.expire_at,
                  token |-> cached.token, resigned |-> FALSE, outcall |-> 0]]
    /\ UNCHANGED <<state, ledger, transfers, mint, calls, hist, log, tasks>>

\* The signer's reply: the signed token and its expiry replace the cached
\* pair; a failed signing is an unwrap on Err, a trap that changes nothing.
SignProxyTokenReply(r, ok) ==
    /\ env.rpcs[r].pc = "sign"
    /\ LET expire_at == env.rpcs[r].expire_at
           token == Some(expire_at + 120)
       IN env' = IF ok
                 THEN [env EXCEPT !.AGENT_TOKEN_N_EXPIRY =
                                      [token |-> token, expire_at |-> expire_at],
                                  !.rpcs[r] = [@ EXCEPT !.pc = "done", !.token = token]]
                 ELSE [env EXCEPT !.rpcs[r] = [@ EXCEPT !.pc = "trapped"]]
    /\ UNCHANGED <<state, ledger, transfers, mint, calls, hist, log, tasks>>

\* The outbound RPC is over; the next one may start.
RpcReturns(r) ==
    /\ env.rpcs[r].pc \in {"done", "trapped"}
    /\ env' = [env EXCEPT !.rpcs[r] = IdleRpc]
    /\ UNCHANGED <<state, ledger, transfers, mint, calls, hist, log, tasks>>

\* Mutant of sha3_256: the hash forgets the chain value it was given.
sha3_256_IgnoresChain(chain_id, now) == <<now>>

\* sha3_256(format!("{}-{}", hex::encode(chain_id), time())): taken as
\* injective, the digest is known by the chain value and the time it hashes.
sha3_256(chain_id, now) == Append(chain_id, now)

\* base64_url.encode: an injective encoding of the digest.
base64_url_encode(bytes) == <<"base64url", bytes>>

\* rpc_call after get_agent_token has returned the token: CHAIN_ID moves on
\* to the hash of its value and the time, and the request is sent with the
\* encoding of the new value as its idempotency-key. hist keeps the requests
\* sent, with their time and the upgrades before them.
RpcCallSend(r) ==
    /\ env.rpcs[r].pc = "done"
    /\ Len(hist.outcalls) < MaxOutcalls
    /\ LET next_chain == sha3_256(env.CHAIN_ID, env.time)
           idempotent_key == base64_url_encode(next_chain)
       IN /\ env' = [env EXCEPT !.CHAIN_ID = next_chain,
                                !.rpcs[r] = [@ EXCEPT !.pc = "http_request",
                                                      !.outcall = Len(hist.outcalls) + 1]]
          /\ hist' = [hist EXCEPT !.outcalls =
                 Append(@, [idempotency_key |-> idempotent_key,
                            at |-> env.time,
                            upgrades |-> hist.upgrades,
                            result |-> "none"])]
    /\ UNCHANGED <<state, ledger, transfers, mint, calls, log, tasks>>

\* The reply of http_request: the body, or RequestFailed.
HttpRequestReply(r, ok) ==
    /\ env.rpcs[r].pc = "http_request"
    /\ env' = [env EXCEPT !.rpcs[r] = [@ EXCEPT !.pc = "returned"]]
    /\ hist' = [hist EXCEPT !.outcalls[env.rpcs[r].outcall].result =
                    IF ok THEN "Ok" ELSE "RequestFailed"]
    /\ UNCHANGED <<state, ledger, transfers, mint, calls, log, tasks>>

\* rpc_call is over, by its return or by the trap in get_agent_token; the
\* caller may call again.
RpcCallReturns(r) ==
    /\ env.rpcs[r].pc \in {"returned", "trapped"}
    /\ env' = [env EXCEPT !.rpcs[r] = IdleRpc]
    /\ UNCHANGED <<state, ledger, transfers, mint, calls, hist, log, tasks>>

AgentTokenNext ==
    \/ TimePasses
    \/ \E r \in Rpcs : GetAgentToken(r)
    \/ \E r \in Rpcs, ok \in BOOLEAN : SignProxyTokenReply(r, ok)
    \/ \E r \in Rpcs : RpcReturns(r)

SpecAgentToken == Init /\ [][AgentTokenNext]_vars

\* ------------------------------------------------------- get_transactions
\* The batches get_transactions is given: distinct signatures in any order.
RECURSIVE SeqsOf(_, _)
SeqsOf(set, len) ==
    IF len = 0 THEN {<<>>}
    ELSE {Append(q, x) : q \in SeqsOf(set, len - 1), x \in set}

IsInjective(q) == \A i, j \in DOMAIN q : q[i] = q[j] => i = j

Batches ==
    {q \in UNION {SeqsOf(ChainSigs, len) : len \in 1..MaxBatch} : IsInjective(q)}

\* One JSON-RPC response of the batch reply: the id of the request it answers
\* and either an error or the transaction of the signature asked for.
JsonRpcResponse(signatures, id, failed) ==
    [id |-> id,
     error |-> IF failed THEN Some("error") ELSE None,
     result |-> IF failed THEN None ELSE Some([transaction |-> signatures[id]])]

\* The replies the RPC node may give to a batch: responses to some of the
\* requests, each at most once, in any order.
BatchReplies(signatures) ==
    UNION {{[i \in 1..len |-> JsonRpcResponse(signatures, ids[i], fails[i])] :
               ids \in {q \in SeqsOf(DOMAIN signatures, len) : IsInjective(q)},
               fails \in [1..len -> BOOLEAN]} :
           len \in 1..Len(signatures)}

\* The map get_transactions builds from the parsed reply: the response at
\* index i is entered under signatures[i].
RECURSIVE InsertResponses(_, _, _, _)
InsertResponses(map, signatures, responses, index) ==
    IF index > Len(responses) THEN map
    ELSE LET response == responses[index]
             result == IF response.error # None
                       THEN [tag |-> "Err", value |-> response.error[1]]
                       ELSE [tag |-> "Ok", value |-> response.result]
         IN InsertResponses(MapInsert(map, signatures[index], result),
                            signatures, responses, index + 1)

get_transactions(signatures, responses) ==
    InsertResponses(EmptyMap, signatures, responses, 1)

\* One call of get_transactions and the reply it got.
GetTransactions(signatures, responses) ==
    /\ env' = [env EXCEPT !.batch =
                  Some([signatures |-> signatures, responses |-> responses,
                        map |-> get_transactions(signatures, responses)])]
    /\ UNCHANGED <<state, ledger, transfers, mint, calls, hist, log, tasks>>

GetTransactionsNext ==
    \E signatures \in Batches :
        \E responses \in BatchReplies(signatures) :
            GetTransactions(signatures, responses)

SpecGetTransactions == Init /\ [][GetTransactionsNext]_vars

\* ------------------------------------------------------- ECDSA public key
\* The key the management canister derives for the minter: the same for every
\* request with the same key name and derivation path.
EcdsaPublicKeyResponse == "public_key"

\* lazy_call_ecdsa_public_key up to its return or its first await: a cached
\* key is returned, otherwise ecdsa_public_key is requested. A caller whose
\* call has returned or trapped may call again.
LazyCallEcdsaPublicKey(k) ==
    /\ env.key_calls[k] \in {"idle", "done", "trapped"}
    /\ state.ecdsa_public_key = None => env.key_requests < MaxKeyRequests
    /\ env' = IF state.ecdsa_public_key # None
              THEN [env EXCEPT !.key_calls[k] = "done"]
              ELSE [env EXCEPT !.key_calls[k] = "ecdsa_public_key",
                               !.key_requests = @ + 1]
    /\ UNCHANGED <<state, ledger, transfers, mint, calls, hist, log, tasks>>

\* The management canister's reply: the key is stored and the proxy token key
\* is requested; an error is a trap.
EcdsaPublicKeyReply(k, ok) ==
    /\ env.key_calls[k] = "ecdsa_public_key"
    /\ IF ok
       THEN /\ state' = [state EXCEPT !.ecdsa_public_key = Some(EcdsaPublicKeyResponse)]
            /\ env' = [env EXCEPT !.key_calls[k] = "get_proxy_token_public_key"]
       ELSE /\ env' = [env EXCEPT !.key_calls[k] = "trapped"]
            /\ UNCHANGED state
    /\ UNCHANGED <<ledger, transfers, mint, calls, hist, log, tasks>>

\* The reply to get_proxy_token_public_key: unwrap, store, return the key.
ProxyPublicKeyReply(k, ok) ==
    /\ env.key_calls[k] = "get_proxy_token_public_key"
    /\ IF ok
       THEN /\ state' = [state EXCEPT !.ecdsa_proxy_public_key = Some("proxy_public_key")]
            /\ env' = [env EXCEPT !.key_calls[k] = "done"]
       ELSE /\ env' = [env EXCEPT !.key_calls[k] = "trapped"]
            /\ UNCHANGED state
    /\ UNCHANGED <<ledger, transfers, mint, calls, hist, log, tasks>>

PublicKeyNext ==
    \/ \E k \in KeyCalls : LazyCallEcdsaPublicKey(k)
    \/ \E k \in KeyCalls, ok \in BOOLEAN : EcdsaPublicKeyReply(k, ok)
    \/ \E k \in KeyCalls, ok \in BOOLEAN : ProxyPublicKeyReply(k, ok)

SpecPublicKey == Init /\ [][PublicKeyNext]_vars

\* The callers and the replies under fair scheduling: every caller calls,
\* every request is answered, and a proxy-key fetch that could be answered
\* with the key again and again is answered with it.
SpecPublicKeyFair ==
    /\ SpecPublicKey
    /\ \A k \in KeyCalls :
          /\ WF_vars(LazyCallEcdsaPublicKey(k))
          /\ WF_vars(\E ok \in BOOLEAN : EcdsaPublicKeyReply(k, ok))
          /\ WF_vars(\E ok \in BOOLEAN : ProxyPublicKeyReply(k, ok))
    /\ SF_vars(\E k \in KeyCalls : ProxyPublicKeyReply(k, TRUE))

\* ---------------------------------------------------------------- upgrade
\* pre_upgrade appends the watermark and the two counters to the log.
pre_upgrade(st, lg) ==
    record_event(
        record_event(
            record_event(lg, Event("LastKnownSolanaSignature",
                                   get_solana_last_known_signature(st))),
            Event("LastDepositIdCounter", st.deposit_id_counter)),
        Event("LastBurnIdCounter", st.burn_id_counter))

\* post_upgrade: the state is rebuilt by replaying the log, and an upgrade
\* argument is then applied and logged.
post_upgrade(lg, minter_arg) ==
    LET replayed == replay_events(lg)
        sl == [st |-> replayed.st, log |-> lg, panicked |-> replayed.panicked]
    IN IF minter_arg = None THEN sl
       ELSE Then(sl, Event("Upgrade", minter_arg[1]))

UpgradeArgs ==
    {None, Some([solana_contract_address |-> None,
                 solana_initial_signature |-> Some(1),
                 ecdsa_key_name |-> None,
                 minimum_withdrawal_amount |-> None])}

\* The canister is stopped for an upgrade: no call or task is suspended.
Stopped ==
    /\ \A c \in DOMAIN calls : calls[c].pc \in {"idle", "done"}
    /\ mint.pc = "idle"
    /\ \A a \in Activations : ~tasks.act[a].live
    /\ \A r \in Rpcs : env.rpcs[r].pc \notin {"sign", "http_request"}
    /\ \A k \in KeyCalls : env.key_calls[k] \in {"idle", "done", "trapped"}

\* An upgrade of the canister: pre_upgrade on the old state, post_upgrade on
\* the log it left, and setup_timers again. A trap in post_upgrade fails the
\* upgrade and keeps the old state and log.
Upgrade(minter_arg) ==
    /\ Stopped
    /\ hist.upgrades < MaxUpgrades
    /\ Committed(post_upgrade(pre_upgrade(state, log), minter_arg))
    /\ hist' = [hist EXCEPT
           !.upgrades = @ + 1,
           !.last_call =
               Some([event |-> Event("Upgrade", minter_arg),
                     panicked |-> post_upgrade(pre_upgrade(state, log),
                                               minter_arg).panicked])]
    /\ tasks' = [tasks EXCEPT !.act = setup_timers]
    /\ env' = [env EXCEPT !.AGENT_TOKEN_N_EXPIRY = InitialAgentToken,
                          !.key_calls = [k \in KeyCalls |-> "idle"],
                          !.batch = None,
                          !.LAST_CHECKED = 0,
                          !.CHAIN_ID = InitialChainId]
    /\ UNCHANGED <<ledger, transfers, mint, calls>>

\* The deposit pipeline with upgrades.
UpgradeNext ==
    \/ \E head \in Sigs : GetLatestSignature(head)
    \/ \E key \in RangeKeys, ok \in BOOLEAN : ScrapSignatureRange(key, ok)
    \/ \E s \in Sigs, verdict \in {"valid", "invalid", "unavailable"} :
          ScrapSignature(s, verdict)
    \/ \E s \in Sigs : MintStart(s)
    \/ \E outcome \in {"Ok", "TemporarilyUnavailable", "Rejected"} :
          LedgerTransfer(outcome)
    \/ MintReply
    \/ \E minter_arg \in UpgradeArgs : Upgrade(minter_arg)

SpecUpgrade == Init /\ [][UpgradeNext]_vars

\* Upgrades with every combination of absent, valid and invalid fields.
ConfigUpgradeArgs ==
    [solana_contract_address : {None, Some("program_2"), Some(""), Some(" ")},
     solana_initial_signature : {None, Some(1), Some(EmptySignature)},
     ecdsa_key_name : {None, Some("key_2"), Some(""), Some(" ")},
     minimum_withdrawal_amount : {None, Some(2), Some(0)}]

UpgradeConfigNext ==
    \E minter_arg \in {None} \cup {Some(upgrade_args) : upgrade_args \in ConfigUpgradeArgs} :
        Upgrade(minter_arg)

SpecUpgradeConfig == Init /\ [][UpgradeConfigNext]_vars

\* trigger_check over time, with the checks it schedules and with upgrades.
TriggerCheckNext ==
    \/ \E a \in Activations, caller \in Callers : TriggerCheck(a, caller)
    \/ TimePasses
    \/ \E a \in Activations : TaskFire(a)
    \/ \E a \in Activations : TaskEnd(a)
    \/ \E minter_arg \in {None} : Upgrade(minter_arg)

SpecTriggerCheck == Init /\ [][TriggerCheckNext]_vars

\* rpc_call over time in one lifetime of the canister, with concurrent
\* callers and calls made again after a failure.
RpcCallNext ==
    \/ TimePasses
    \/ \E r \in Rpcs : GetAgentToken(r)
    \/ \E r \in Rpcs, ok \in BOOLEAN : SignProxyTokenReply(r, ok)
    \/ \E r \in Rpcs : RpcCallSend(r)
    \/ \E r \in Rpcs, ok \in BOOLEAN : HttpRequestReply(r, ok)
    \/ \E r \in Rpcs : RpcCallReturns(r)

SpecRpcCall == Init /\ [][RpcCallNext]_vars

\* The withdrawal engine with upgrades; one destination address and one
\* signer answer are enough for what upgrades touch.
WithdrawUpgradeNext ==
    \/ \E c \in DOMAIN calls, caller \in Callers, amount \in Amounts :
          Withdraw(c, caller, "Sol1", amount)
    \/ \E c \in DOMAIN calls, ok \in BOOLEAN : WithdrawBurnReply(c, ok)
    \/ \E c \in DOMAIN calls, ok \in BOOLEAN : WithdrawSignReply(c, ok, 1)
    \/ \E c \in DOMAIN calls, caller \in Callers, id \in BurnIds :
          GetCoupon(c, caller, id)
    \/ \E c \in DOMAIN calls, ok \in BOOLEAN : GetCouponSignReply(c, ok, 1)
    \/ \E minter_arg \in UpgradeArgs : Upgrade(minter_arg)

SpecWithdrawUpgrade == Init /\ [][WithdrawUpgradeNext]_vars

\* ---------------------------------------------------------------- claims
KeySets(s) ==
    {m \in {"signatures", "invalid", "accepted", "minted"} :
        \/ m = "signatures" /\ s \in DOMAIN state.solana_signatures
        \/ m = "invalid" /\ s \in DOMAIN state.invalid_events
        \/ m = "accepted" /\ s \in DOMAIN state.accepted_events
        \/ m = "minted" /\ s \in DOMAIN state.minted_events}

\* C1: every Solana signature is a key of at most one of solana_signatures,
\* invalid_events, accepted_events and minted_events, after any sequence of
\* the four mutator calls, re-discovery of a classified signature included.
C1_SignatureInAtMostOneSet == \A s \in Sigs : Cardinality(KeySets(s)) <= 1

\* C5: every burn_id that was ever recorded is a key of exactly one of
\* withdrawal_burned_events and withdrawal_redeemed_events (never both, never
\* neither), after any sequence of the two withdrawal mutator calls.
C5_WithdrawalInExactlyOneSet ==
    \A id \in hist.recorded :
        (id \in DOMAIN state.withdrawal_burned_events)
            # (id \in DOMAIN state.withdrawal_redeemed_events)

\* --------------------------------------------- claims on the withdrawal engine
BurnIdOf(c) == calls[c].event[1].burn_id
Burned == state.withdrawal_burned_events
Redeemed == state.withdrawal_redeemed_events

\* A withdraw call arrives from a principal that holds a slot.
WithdrawByBusyPrincipal(c) ==
    /\ calls[c].pc = "idle"
    /\ calls'[c].kind = "withdraw"
    /\ calls'[c].caller \in state.withdrawing_principals

NothingStarted(c) ==
    /\ calls'[c].pc = "done"
    /\ state' = state /\ ledger' = ledger /\ hist' = hist

\* C3 as stated: while P is in withdrawing_principals every withdraw call by
\* P returns AlreadyProcessing, with no ledger call, no burn_id allocated and
\* no withdrawal event recorded.
C3_BusyPrincipalAlwaysAlreadyProcessing ==
    [][\A c \in DOMAIN calls :
          WithdrawByBusyPrincipal(c) =>
              calls'[c].result.tag = "AlreadyProcessing" /\ NothingStarted(c)]_vars

\* C3 amended: while P is in withdrawing_principals a withdraw call by P with
\* an amount not below the minimum returns AlreadyProcessing, one with an
\* amount below the minimum is rejected by the trap of is_over_limit, and in
\* both cases there is no ledger call, no burn_id and no withdrawal event.
C3_BusyPrincipalNeverStartsABurn ==
    [][\A c \in DOMAIN calls :
          WithdrawByBusyPrincipal(c) =>
              /\ calls'[c].result.tag =
                     IF calls'[c].args[2] < state.minimum_withdrawal_amount
                     THEN "Rejected" ELSE "AlreadyProcessing"
              /\ NothingStarted(c)]_vars

C3_Witness ==
    \E c \in DOMAIN calls :
        /\ calls[c].kind = "withdraw"
        /\ calls[c].result.tag = "AlreadyProcessing"
        /\ calls[c].caller \in state.withdrawing_principals

\* The pairs (first, second) of withdraw calls of one principal where the
\* second arrived while the first was suspended.
OverlappingWithdraws ==
    {p \in (DOMAIN calls) \X (DOMAIN calls) :
        calls[p[2]].kind = "withdraw" /\ p[1] \in calls[p[2]].during}

C6_CouponIffRedeemed ==
    /\ \A id \in DOMAIN Burned : Burned[id].coupon = None
    /\ \A id \in DOMAIN Redeemed : Redeemed[id].coupon # None

C6_Witness ==
    \E a \in DOMAIN Burned, b \in DOMAIN Redeemed :
        Burned[a].coupon = None /\ Redeemed[b].coupon # None

\* C7: a withdrawal is in the burned set only after the ledger burn for its
\* burn_id returned success, and in the redeemed set only after its coupon was
\* signed; a failed or still pending burn has no burned or redeemed event.
C7_EventsOnlyAfterConfirmedIO ==
    /\ \A id \in (DOMAIN Burned) \cup (DOMAIN Redeemed) : id \in hist.burn_ok
    /\ \A id \in DOMAIN Redeemed : id \in hist.signed
    /\ \A c \in DOMAIN calls :
          (calls[c].kind = "withdraw" /\
             (calls[c].pc = "burn" \/ calls[c].result.tag = "BurnFailed"))
          => BurnIdOf(c) \notin (DOMAIN Burned) \cup (DOMAIN Redeemed)

C7_Witness ==
    /\ \E id \in DOMAIN Redeemed : id \in hist.signed /\ id \in hist.burn_ok
    /\ \E c \in DOMAIN calls :
          /\ calls[c].result.tag = "BurnFailed"
          /\ BurnIdOf(c) \notin (DOMAIN Burned) \cup (DOMAIN Redeemed)

\* C8: the slot is held while a withdraw is suspended at the ledger burn or
\* at the signing call, and a principal leaves withdrawing_principals only in
\* the step that appends the redemption event of its in-flight withdrawal or
\* in the step that handles the failure of its ledger burn; a signing failure
\* after a successful burn does not release it.
SlotHeldWhileSuspended ==
    \A c \in DOMAIN calls :
        (calls[c].kind = "withdraw" /\ calls[c].pc \in {"burn", "sign"})
            => calls[c].caller \in state.withdrawing_principals

ReleasedOnlyAfterRedeemOrBurnFailure ==
    \A P \in state.withdrawing_principals \ state'.withdrawing_principals :
        \E c \in DOMAIN calls :
            /\ calls[c].kind = "withdraw" /\ calls[c].caller = P
            /\ \/ /\ calls[c].pc = "sign"
                  /\ calls'[c].result.tag = "Coupon"
                  /\ BurnIdOf(c) \in DOMAIN state'.withdrawal_redeemed_events
                  /\ BurnIdOf(c) \in hist.burn_ok
               \/ /\ calls[c].pc = "burn"
                  /\ calls'[c].result.tag = "BurnFailed"
                  /\ BurnIdOf(c) \in hist'.burn_failed

SlotKeptOnSignFailure ==
    \A c \in DOMAIN calls :
        (calls[c].pc = "sign" /\ calls'[c].result.tag = "SignFailed")
            => state'.withdrawing_principals = state.withdrawing_principals

C8_SlotReleasedOnlyAfterRedeemOrBurnFailure ==
    /\ []SlotHeldWhileSuspended
    /\ [][ReleasedOnlyAfterRedeemOrBurnFailure /\ SlotKeptOnSignFailure]_vars

C8_Witness ==
    \E c \in DOMAIN calls, d \in DOMAIN calls :
        /\ calls[c].kind = "withdraw" /\ calls[c].result.tag = "SignFailed"
        /\ calls[c].caller \in state.withdrawing_principals
        /\ calls[d].kind = "withdraw" /\ calls[d].result.tag = "Coupon"
        /\ calls[d].caller \notin state.withdrawing_principals

\* C9: a get_coupon by the owner of a withdrawal left in burned goes to the
\* signer, and when the signer answers while the withdrawal is still in burned
\* the call returns a coupon made of the stored burn_id, recipient and amount
\* and the withdrawal moves from burned to redeemed with that coupon.
GetCouponOnBurnedSigns ==
    \A c \in DOMAIN calls :
        (/\ calls[c].pc = "idle" /\ calls'[c].kind = "get_coupon"
         /\ calls'[c].args[1] \in DOMAIN Burned
         /\ Burned[calls'[c].args[1]].from_icp_address = calls'[c].caller)
        => /\ calls'[c].pc = "sign"
           /\ calls'[c].event = Some(Burned[calls'[c].args[1]])

GetCouponRegenerates ==
    \A c \in DOMAIN calls :
        (/\ calls[c].kind = "get_coupon" /\ calls[c].pc = "sign"
         /\ calls'[c].pc = "done" /\ calls'[c].result.tag # "SignFailed"
         /\ calls[c].args[1] \in DOMAIN Burned)
        => LET id == calls[c].args[1]
               stored == Burned[id]
               result == calls'[c].result
           IN /\ result.tag = "Coupon" /\ result.coupon # None
              /\ result.coupon[1].burn_id = stored.burn_id
              /\ result.coupon[1].to_sol_address = stored.to_sol_address
              /\ result.coupon[1].amount = stored.amount
              /\ result.coupon[1].signature.message =
                     <<stored.burn_id, stored.to_sol_address, stored.amount>>
              /\ id \notin DOMAIN state'.withdrawal_burned_events
              /\ id \in DOMAIN state'.withdrawal_redeemed_events
              /\ state'.withdrawal_redeemed_events[id].coupon = result.coupon
              /\ state'.withdrawal_redeemed_events[id].from_icp_address
                     = stored.from_icp_address

C9_GetCouponRecoversBurnedWithdrawal ==
    [][GetCouponOnBurnedSigns /\ GetCouponRegenerates]_vars

C9_Witness ==
    \E c \in DOMAIN calls, d \in DOMAIN calls :
        /\ calls[c].kind = "withdraw" /\ calls[c].result.tag = "SignFailed"
        /\ calls[d].kind = "get_coupon" /\ calls[d].result.tag = "Coupon"
        /\ calls[d].args[1] = BurnIdOf(c)
        /\ calls[d].caller = calls[c].caller
        /\ BurnIdOf(c) \in DOMAIN Redeemed

\* C10: a get_coupon by the owner of a redeemed withdrawal returns the stored
\* coupon and leaves the state unchanged, and every coupon ever returned for
\* one burn_id, by withdraw or by any get_coupon, is the same.
GetCouponOnRedeemedReadsOnly ==
    \A c \in DOMAIN calls :
        (/\ calls[c].pc = "idle" /\ calls'[c].kind = "get_coupon"
         /\ calls'[c].args[1] \in DOMAIN Redeemed
         /\ Redeemed[calls'[c].args[1]].from_icp_address = calls'[c].caller)
        => /\ calls'[c].pc = "done"
           /\ calls'[c].result =
                  [tag |-> "Coupon", coupon |-> Redeemed[calls'[c].args[1]].coupon]
           /\ state' = state /\ ledger' = ledger /\ hist' = hist

CouponCallsFor(id) ==
    {c \in DOMAIN calls :
        /\ calls[c].result.tag = "Coupon"
        /\ \/ calls[c].kind = "get_coupon" /\ calls[c].args[1] = id
           \/ calls[c].kind = "withdraw" /\ BurnIdOf(c) = id}

SameCouponEveryTime ==
    \A id \in BurnIds :
        \A c \in CouponCallsFor(id), d \in CouponCallsFor(id) :
            calls[c].result.coupon = calls[d].result.coupon

C10_GetCouponIdempotentOnRedeemed ==
    /\ []SameCouponEveryTime
    /\ [][GetCouponOnRedeemedReadsOnly]_vars

C10_Witness ==
    \E id \in DOMAIN Redeemed :
        \E c \in CouponCallsFor(id), d \in CouponCallsFor(id) :
            /\ c # d
            /\ calls[c].kind = "get_coupon" /\ calls[d].kind = "get_coupon"
            /\ calls[c].event = None /\ calls[d].event = None

\* ------------------------------------------------------ claims on the minter
MintedSigs == DOMAIN state.minted_events

AtMostOneTransfer ==
    \A s \in Sigs :
        /\ transfers[s] <= 1
        /\ s \in MintedSigs \cup hist.crashed => transfers[s] = 1

\* The attempt that follows a crash uses a memo the ledger has executed, is
\* answered Duplicate and moves nothing; the Duplicate reply mints the event.
RetryAfterCrashIsDuplicate ==
    /\ (/\ mint.pc = "call" /\ mint'.pc = "reply"
        /\ mint.deposit[1].sol_sig \in hist.crashed)
       => /\ LedgerMemo(mint.deposit[1].deposit_id) \in ledger.mint_memos
          /\ mint'.reply = "Duplicate"
          /\ transfers' = transfers /\ ledger' = ledger
    /\ (mint.pc = "reply" /\ mint.reply = "Duplicate" /\ mint'.pc = "idle")
       => /\ mint.deposit[1].sol_sig \in DOMAIN state'.minted_events
          /\ mint.deposit[1].sol_sig \notin DOMAIN state'.accepted_events

\* C2: for every deposit signature the ledger executes at most one mint
\* transfer, whatever the interleaving of mint cycles and crashes between the
\* ledger's success reply and the append of the minted event: the next attempt
\* reuses the memo of the same deposit_id, is answered with the duplicate
\* error and promotes the event to minted without a second transfer.
C2_AtMostOneMintTransferPerDeposit ==
    /\ []AtMostOneTransfer
    /\ [][RetryAfterCrashIsDuplicate]_vars

C2_Witness ==
    \E s \in hist.crashed : s \in MintedSigs /\ transfers[s] = 1

\* C11: get_coupon(p, burn_id) by an admitted caller returns Unauthorized, not
\* NotFound, whenever burn_id is a burned or redeemed withdrawal of another
\* principal; it returns NotFound only when no withdrawal has that burn_id;
\* and in neither case is the state changed or anything signed.
GetCouponArrives(c) ==
    /\ calls[c].pc = "idle"
    /\ calls'[c].kind = "get_coupon"
    /\ calls'[c].caller \in Principals

ForeignWithdrawal(id, p) ==
    \/ id \in DOMAIN Burned /\ Burned[id].from_icp_address # p
    \/ id \in DOMAIN Redeemed /\ Redeemed[id].from_icp_address # p

GetCouponUnauthorizedNotNotFound ==
    \A c \in DOMAIN calls :
        GetCouponArrives(c) =>
            LET id == calls'[c].args[1]
                p == calls'[c].caller
                tag == calls'[c].result.tag
            IN /\ ForeignWithdrawal(id, p) =>
                      calls'[c].pc = "done" /\ tag = "Unauthorized"
               /\ tag = "Unauthorized" => ForeignWithdrawal(id, p)
               /\ tag = "NotFound" => id \notin (DOMAIN Burned \cup DOMAIN Redeemed)
               /\ id \notin (DOMAIN Burned \cup DOMAIN Redeemed) =>
                      calls'[c].pc = "done" /\ tag = "NotFound"
               /\ tag \in {"Unauthorized", "NotFound"} =>
                      /\ state' = state /\ hist' = hist /\ ledger' = ledger
                      /\ calls'[c].event = None

C11_GetCouponUnauthorizedForForeignBurnId ==
    [][GetCouponUnauthorizedNotNotFound]_vars

\* A get_coupon on another principal's withdrawal and one on an unknown
\* burn_id have returned.
C11_Witness ==
    /\ \E c \in DOMAIN calls :
          /\ calls[c].kind = "get_coupon" /\ calls[c].result.tag = "Unauthorized"
          /\ ForeignWithdrawal(calls[c].args[1], calls[c].caller)
    /\ \E c \in DOMAIN calls :
          /\ calls[c].kind = "get_coupon" /\ calls[c].result.tag = "NotFound"
          /\ calls[c].caller \in Principals

\* C12: a withdraw by an admitted caller is rejected exactly when its amount
\* is below minimum_withdrawal_amount (minimum - 1 rejected, minimum
\* accepted), and the rejection leaves the state as it was: the principal is
\* not inserted in withdrawing_principals, no burn_id is allocated, the
\* ledger is not called.
WithdrawArrives(c) ==
    /\ calls[c].pc = "idle"
    /\ calls'[c].kind = "withdraw"
    /\ calls'[c].caller \in Principals

WithdrawRejectedExactlyBelowMinimum ==
    \A c \in DOMAIN calls :
        WithdrawArrives(c) =>
            LET amount == calls'[c].args[2]
                rejected == calls'[c].pc = "done" /\ calls'[c].result.tag = "Rejected"
            IN /\ rejected <=> amount < state.minimum_withdrawal_amount
               /\ amount = state.minimum_withdrawal_amount - 1 => rejected
               /\ amount = state.minimum_withdrawal_amount => ~rejected
               /\ rejected => /\ state' = state /\ ledger' = ledger /\ hist' = hist
                               /\ calls'[c].event = None

C12_WithdrawRejectsExactlyBelowMinimum ==
    [][WithdrawRejectedExactlyBelowMinimum]_vars

\* One withdraw of minimum - 1 was rejected and one of exactly the minimum
\* went on to the ledger burn.
C12_Witness ==
    /\ \E c \in DOMAIN calls :
          /\ calls[c].kind = "withdraw" /\ calls[c].caller \in Principals
          /\ calls[c].args[2] = state.minimum_withdrawal_amount - 1
          /\ calls[c].result.tag = "Rejected"
    /\ \E c \in DOMAIN calls :
          /\ calls[c].kind = "withdraw" /\ calls[c].caller \in Principals
          /\ calls[c].args[2] = state.minimum_withdrawal_amount
          /\ calls[c].pc = "burn"

\* C13: replaying the full event log, as post_upgrade does after pre_upgrade
\* appended the watermark and the two counters, yields the live state's
\* solana_last_known_signature, deposit_id_counter, burn_id_counter and the
\* contents of the range, signature, invalid, accepted, minted, burned and
\* redeemed collections.
ReplayedFields(st) ==
    <<st.solana_last_known_signature, st.deposit_id_counter, st.burn_id_counter,
      st.solana_signature_ranges, st.solana_signatures, st.invalid_events,
      st.accepted_events, st.minted_events, st.withdrawal_burned_events,
      st.withdrawal_redeemed_events>>

UpgradeDone == hist'.upgrades = hist.upgrades + 1

C13_ReplayYieldsLiveState ==
    [][UpgradeDone => ReplayedFields(state') = ReplayedFields(state)]_vars

\* C14: deposit_id is injective: no two distinct deposit events stored in
\* accepted_events or minted_events have the same deposit_id, through
\* discovery, classification, retry, mint and upgrade.
DepositEvents ==
    {state.accepted_events[s] : s \in DOMAIN state.accepted_events}
        \cup {state.minted_events[s] : s \in DOMAIN state.minted_events}

C14_DepositIdInjective ==
    \A d1 \in DepositEvents, d2 \in DepositEvents :
        d1 # d2 => d1.deposit_id # d2.deposit_id

\* One deposit id was allocated before an upgrade and one after it, and both
\* deposits are stored.
C14_Witness ==
    /\ hist.upgrades = 1
    /\ log.st.deposit_id_counter = 1
    /\ state.deposit_id_counter = 2
    /\ Cardinality(DepositEvents) = 2
    /\ DOMAIN state.minted_events # {}

\* C15: burn_id is injective: no two distinct withdrawal events have the same
\* burn_id and no burn_id is handed to the ledger for two different withdraw
\* calls, through withdraw calls (failed burns included), get_coupon calls
\* and upgrades.
WithdrawalEvents ==
    {Burned[id] : id \in DOMAIN Burned} \cup {Redeemed[id] : id \in DOMAIN Redeemed}

BurnCalls == {c \in DOMAIN calls : calls[c].kind = "withdraw" /\ calls[c].event # None}

C15_BurnIdInjective ==
    /\ \A w1 \in WithdrawalEvents, w2 \in WithdrawalEvents :
          w1 # w2 => w1.burn_id # w2.burn_id
    /\ \A c1 \in BurnCalls, c2 \in BurnCalls : c1 # c2 => BurnIdOf(c1) # BurnIdOf(c2)

\* One burn id went to a burn that failed before an upgrade, the next one to
\* a burn after it, and the second withdrawal is stored.
C15_Witness ==
    /\ hist.upgrades = 1
    /\ log.st.burn_id_counter = 1
    /\ state.burn_id_counter = 2
    /\ 0 \in hist.burn_failed
    /\ 1 \in DOMAIN Burned \cup DOMAIN Redeemed
    /\ Cardinality(BurnCalls) = 2

\* C16: a GetLatestSignature run whose page holds exactly LIMIT signatures
\* records one range (before = the oldest returned signature, until = the
\* watermark read at the start); a run whose page holds 1 to LIMIT-1
\* signatures records no range; in both cases the watermark becomes the
\* newest returned signature; an empty page leaves the watermark and every
\* collection unchanged.
DiscoveryRunOn(head) ==
    LET until == get_solana_last_known_signature(state)
        page == get_signatures_for_address(head, LIMIT, None, until)
        r == get_latest_signature(Live, page)
        key == range_key(page[Len(page)].sol_sig, until)
    IN /\ ~r.panicked
       /\ Len(page) = LIMIT =>
              /\ key \notin DOMAIN state.solana_signature_ranges
              /\ r.st.solana_signature_ranges =
                     MapInsert(state.solana_signature_ranges, key,
                               SolanaSignatureRange(page[LIMIT].sol_sig, until))
       /\ (Len(page) >= 1 /\ Len(page) < LIMIT) =>
              r.st.solana_signature_ranges = state.solana_signature_ranges
       /\ Len(page) >= 1 =>
              /\ r.st.solana_last_known_signature = Some(page[1].sol_sig)
              /\ \A i \in 1..Len(page) : page[i].sol_sig \in DOMAIN r.st.solana_signatures
       /\ Len(page) = 0 => r.st = state /\ r.log = log

C16_FullPageRecordsRange == \A head \in 0..NChain : DiscoveryRunOn(head)

\* A run from the initial watermark got a full page of the chain's newest
\* signatures: its range is recorded and the watermark is the chain's newest.
C16_Witness ==
    /\ range_key(NChain - LIMIT + 1, 0) \in DOMAIN state.solana_signature_ranges
    /\ state.solana_last_known_signature = Some(NChain)
    /\ NChain \in DOMAIN state.solana_signatures

\* C17: the watermark is never advanced past an exhausted range: whenever a
\* range was dropped because its retries were used up, the watermark is not
\* newer than the signatures the range covered.
CoveredBy(range) ==
    {s \in ChainSigs : range.until_sol_sig < s /\ s < range.before_sol_sig}

C17_WatermarkNotPastExhaustedRange ==
    \A range \in hist.exhausted : \A s \in CoveredBy(range) :
        get_solana_last_known_signature(state) < s

\* C18: for every state and every signature s, calling
\* record_or_retry_solana_signature(s) twice yields the state of calling it
\* once with the retry counter of the stored entry for s.sig raised by one;
\* the second call changes nothing but that counter.
CalledTwice(sig) ==
    LET once == record_or_retry_solana_signature(state, sig)
        twice == record_or_retry_solana_signature(once.st, sig)
    IN /\ ~once.panicked /\ ~twice.panicked
       /\ sig.sol_sig \in DOMAIN once.st.solana_signatures
       /\ twice.st = [once.st EXCEPT !.solana_signatures[sig.sol_sig].retries = @ + 1]

C18_RecordSignatureTwiceIsOncePlusRetry ==
    \A s \in Sigs, retries \in 0..MaxRetries :
        CalledTwice([SolanaSignature(s) EXCEPT !.retries = retries])

\* The mutator was called twice on one signature and once on another.
C18_Witness ==
    \E s1 \in Sigs, s2 \in Sigs :
        /\ s1 \in DOMAIN state.solana_signatures
        /\ state.solana_signatures[s1].retries = 1
        /\ s2 \in DOMAIN state.solana_signatures
        /\ state.solana_signatures[s2].retries = 0

\* C20: a signature enters accepted_events only by leaving
\* solana_signatures, enters minted_events only by leaving accepted_events,
\* enters invalid_events only by leaving solana_signatures, and no operation
\* removes a signature from minted_events or invalid_events.
Enters(s, field) == s \notin DOMAIN state[field] /\ s \in DOMAIN state'[field]
Leaves(s, field) == s \in DOMAIN state[field] /\ s \notin DOMAIN state'[field]

LegalDepositTransitions ==
    \A s \in Sigs :
        /\ Enters(s, "accepted_events") => Leaves(s, "solana_signatures")
        /\ Enters(s, "minted_events") => Leaves(s, "accepted_events")
        /\ Enters(s, "invalid_events") => Leaves(s, "solana_signatures")
        /\ ~Leaves(s, "minted_events")
        /\ ~Leaves(s, "invalid_events")

LiveInstances(kind) ==
    {a \in Activations : tasks.act[a].pos > 0 /\ tasks.act[a].live /\ KindOf(a) = kind}

TaskKinds == {TaskOrder[i] : i \in DOMAIN TaskOrder}

\* At most one activation is live in each kind, and active_tasks holds exactly
\* the kinds that have a live instance.
OneInstancePerKind ==
    /\ \A kind \in TaskKinds : Cardinality(LiveInstances(kind)) <= 1
    /\ state.active_tasks = {kind \in TaskKinds : LiveInstances(kind) # {}}

\* An activation at a task that is not yet live moves on: it either became
\* live, or was skipped.
Fired(a) ==
    /\ tasks.act[a].pos > 0 /\ ~tasks.act[a].live
    /\ tasks'.act[a] # tasks.act[a]

\* A firing that finds its kind held is skipped and changes nothing but the
\* activation's position; one that finds it free becomes live.
FiringSkippedWhenHeld ==
    \A a \in Activations :
        Fired(a) =>
            IF KindOf(a) \in state.active_tasks
            THEN /\ ~tasks'.act[a].live
                 /\ tasks'.act[a].pos # tasks.act[a].pos
                 /\ UNCHANGED <<state, ledger, transfers, mint, calls, hist, log>>
            ELSE tasks'.act[a] = [tasks.act[a] EXCEPT !.live = TRUE]

\* When the cycle of a live instance ends, its kind is no longer held.
KindRemovedAtCycleEnd ==
    \A a \in Activations :
        (/\ tasks.act[a].pos > 0 /\ tasks.act[a].live
         /\ tasks'.act[a] # tasks.act[a])
            => /\ ~tasks'.act[a].live
               /\ KindOf(a) \notin state'.active_tasks

\* C19: for each of the four task kinds at most one instance is live at any
\* time, whatever the interleaving of the activation of setup_timers with the
\* activations of trigger_check: a firing that finds its kind in active_tasks
\* is skipped without mutating state, and the kind is removed from
\* active_tasks when its cycle ends.
C19_OneLiveInstancePerTaskKind ==
    /\ []OneInstancePerKind
    /\ [][FiringSkippedWhenHeld /\ KindRemovedAtCycleEnd]_vars

\* C19 witness: two activations stand at the same task kind, one of them live
\* and holding the lock, the other about to fire.
C19_Witness ==
    \E a, b \in Activations :
        /\ a # b
        /\ tasks.act[a].pos > 0 /\ tasks.act[b].pos = tasks.act[a].pos
        /\ tasks.act[a].live /\ ~tasks.act[b].live
        /\ KindOf(a) \in state.active_tasks

\* --------------------------------------------------- claims on the store
\* The precondition of the mutator an event names does not hold in `st`.
PreconditionViolated(st, event) ==
    LET x == event.payload
        ranges == DOMAIN st.solana_signature_ranges
    IN CASE event.kind = "InvalidEventRecorded" ->
                \/ x.sol_sig \notin DOMAIN st.solana_signatures
                \/ x.sol_sig \in DOMAIN st.invalid_events
         [] event.kind = "MintedEventRecorded" ->
                \/ x.sol_sig \notin DOMAIN st.accepted_events
                \/ x.sol_sig \in DOMAIN st.minted_events
         [] event.kind = "AcceptedEventRecorded" ->
                /\ x.sol_sig \notin DOMAIN st.accepted_events
                /\ x.sol_sig \notin DOMAIN st.solana_signatures
         [] event.kind = "WithdrawalRedeemedRecorded" ->
                x.burn_id \notin DOMAIN st.withdrawal_burned_events
         [] event.kind = "SignatureRangeRecorded" ->
                range_key(x.before_sol_sig, x.until_sol_sig) \in ranges
         [] event.kind = "SignatureRangeRemoved" ->
                range_key(x.before_sol_sig, x.until_sol_sig) \notin ranges
         [] event.kind = "SignatureRangeRetried" ->
                LET old_key == range_key(x[1].before_sol_sig, x[1].until_sol_sig)
                IN \/ old_key \notin ranges
                   \/ /\ x[2] # None
                      /\ range_key(x[2][1].before_sol_sig, x[2][1].until_sol_sig)
                             \in ranges \ {old_key}
         [] OTHER -> FALSE

\* The step is a call of a mutator.
Called(event) ==
    /\ hist'.last_call # None
    /\ hist'.last_call[1].event = event

AbortsAndLeavesState ==
    \A event \in StoreCalls :
        (Called(event) /\ PreconditionViolated(state, event))
            => /\ hist'.last_call[1].panicked
               /\ UNCHANGED <<state, log>>

\* C21: a mutator called with its precondition violated aborts and leaves the
\* state exactly as it was before the call: record_invalid_event on a
\* signature already in invalid_events, record_minted_event on a signature
\* already in minted_events, retry_solana_signature_range with a new range
\* whose key already exists, and record_solana_signature_range,
\* remove_solana_signature_range, record_or_retry_accepted_event and
\* record_withdrawal_redeemed_event on a missing or duplicate key.
C21_ViolatedPreconditionAborts == [][AbortsAndLeavesState]_vars

\* C21 witness: record_invalid_event was called on a signature that is both
\* discovered and already invalid, and panicked after it had taken the
\* signature out of solana_signatures; the signature is still there.
C21_Witness ==
    /\ hist.last_call =
           Some([event |-> Event("InvalidEventRecorded", SolanaSignature(1)),
                 panicked |-> TRUE])
    /\ 1 \in DOMAIN state.solana_signatures
    /\ 1 \in DOMAIN state.invalid_events

\* ---------------------------------------------- claims on the proxy token
\* An outbound RPC asks for the agent token.
AsksForToken(r) == env.rpcs[r].pc = "idle" /\ env'.rpcs[r].pc # "idle"

ResignedExactlyWhenExpired ==
    \A r \in Rpcs :
        AsksForToken(r) =>
            (env'.rpcs[r].resigned <=> env.AGENT_TOKEN_N_EXPIRY.expire_at <= env.time)

ReusedUnchangedWhenNotExpired ==
    \A r \in Rpcs :
        (AsksForToken(r) /\ env.AGENT_TOKEN_N_EXPIRY.expire_at > env.time)
            => /\ env'.rpcs[r].pc = "done"
               /\ env'.rpcs[r].token = env.AGENT_TOKEN_N_EXPIRY.token
               /\ UNCHANGED env.AGENT_TOKEN_N_EXPIRY

ReplacedTogetherAfterResign ==
    \A r \in Rpcs :
        (env.rpcs[r].pc = "sign" /\ env'.rpcs[r].pc = "done")
            => env'.AGENT_TOKEN_N_EXPIRY =
                   [token |-> env'.rpcs[r].token, expire_at |-> env.rpcs[r].expire_at]

\* C22: on every outbound RPC the proxy token is re-signed if and only if the
\* cached expiry is less than or equal to the current time in seconds; when
\* expiry > now the cached token is reused unchanged, and after a re-sign the
\* cached token and the cached expiry are replaced together.
C22_TokenResignedIffExpiryNotAfterNow ==
    [][/\ ResignedExactlyWhenExpired
       /\ ReusedUnchangedWhenNotExpired
       /\ ReplacedTogetherAfterResign]_vars

\* ------------------------------------------- claims on the ECDSA public key
PublicKeyNeverChanges ==
    state.ecdsa_public_key # None => state'.ecdsa_public_key = state.ecdsa_public_key

\* C23: the derived ECDSA public key is fetched from the management canister
\* at most once and is never invalidated: for any interleaving of concurrent
\* lazy_call_ecdsa_public_key callers at most one ecdsa_public_key request is
\* issued, and once State.ecdsa_public_key is set its value never changes.
C23_PublicKeyFetchedAtMostOnce ==
    /\ [](env.key_requests <= 1)
    /\ [][PublicKeyNeverChanges]_vars

\* ------------------------------------------------ claims on the mint reply
\* MintGSol handles a permanent error of the ledger.
PermanentErrorHandled ==
    mint.pc = "reply" /\ mint.reply = "Rejected" /\ mint'.pc = "idle"

RejectedDepositBecomesInvalid ==
    PermanentErrorHandled =>
        LET s == mint.deposit[1].sol_sig
        IN /\ s \notin DOMAIN state'.accepted_events
           /\ s \in DOMAIN state'.invalid_events
           /\ s \notin DOMAIN state'.solana_signatures
           /\ s \notin DOMAIN state'.minted_events

\* C24: when the ledger answers a mint with a permanent error, the minter
\* records that deposit as invalid: the signature leaves accepted_events and
\* is afterwards a key of invalid_events only, and the deposit is never
\* minted.
C24_PermanentLedgerErrorRecordsInvalid == [][RejectedDepositBecomesInvalid]_vars

\* ------------------------------------------------ claims on range retries
KeyOf(range) == range_key(range.before_sol_sig, range.until_sol_sig)
Ranges == state.solana_signature_ranges

\* The step is retry_solana_signature_range(old, new).
RetryCalled(old, new) == Called(Event("SignatureRangeRetried", <<old, new>>))

\* Nothing but the ranges named by `keys` differs after the step.
OnlyRangesChanged(keys) ==
    /\ \A k \in (DOMAIN Ranges \cup DOMAIN Ranges') \ keys :
           k \in DOMAIN Ranges /\ k \in DOMAIN Ranges' /\ Ranges'[k] = Ranges[k]
    /\ [state' EXCEPT !.solana_signature_ranges = Ranges] = state

\* Without a new range, old's retry counter grows by one and the keys stay.
RetryIncrements(old) ==
    (RetryCalled(old, None) /\ KeyOf(old) \in DOMAIN Ranges)
        => /\ DOMAIN Ranges' = DOMAIN Ranges
           /\ Ranges'[KeyOf(old)] = [Ranges[KeyOf(old)] EXCEPT !.retries = @ + 1]
           /\ OnlyRangesChanged({KeyOf(old)})

\* With a new range, old's key is gone and new is there as given.
RetryReplaces(old, new) ==
    /\ KeyOf(old) \notin DOMAIN Ranges'
    /\ KeyOf(new) \in DOMAIN Ranges'
    /\ Ranges'[KeyOf(new)] = new
    /\ OnlyRangesChanged({KeyOf(old), KeyOf(new)})

RetryAbortsOnMissingOld(old, new) ==
    (RetryCalled(old, new) /\ KeyOf(old) \notin DOMAIN Ranges)
        => hist'.last_call[1].panicked /\ UNCHANGED state

\* C25 as stated: retry_solana_signature_range(old, new): when old's key
\* exists and new is absent, the set of range keys is unchanged and only
\* old's retry counter grows by one; when new is given, old's key is absent
\* afterwards, new's key is present with new's own retry counter, and every
\* other range is unchanged; when old's key does not exist the call aborts.
C25_RetryFrameAsStated ==
    [][\A old \in StoreRanges :
          /\ RetryIncrements(old)
          /\ \A new \in StoreRanges :
                /\ (RetryCalled(old, Some(new)) /\ KeyOf(old) \in DOMAIN Ranges)
                      => RetryReplaces(old, new)
                /\ RetryAbortsOnMissingOld(old, Some(new))
          /\ RetryAbortsOnMissingOld(old, None)]_vars

\* C25, amended: as stated when the key of the new range is not in the map;
\* when it is the key of another range the call aborts and changes nothing,
\* and when it is old's own key the entry is replaced by the new range.
C25_RetryFrame ==
    [][\A old \in StoreRanges :
          /\ RetryIncrements(old)
          /\ \A new \in StoreRanges :
                /\ (RetryCalled(old, Some(new)) /\ KeyOf(old) \in DOMAIN Ranges)
                      => IF KeyOf(new) \notin DOMAIN Ranges
                         THEN RetryReplaces(old, new)
                         ELSE IF KeyOf(new) # KeyOf(old)
                         THEN hist'.last_call[1].panicked /\ UNCHANGED state
                         ELSE /\ DOMAIN Ranges' = DOMAIN Ranges
                              /\ Ranges'[KeyOf(old)] = new
                              /\ OnlyRangesChanged({KeyOf(old)})
                /\ RetryAbortsOnMissingOld(old, Some(new))
          /\ RetryAbortsOnMissingOld(old, None)]_vars

\* C25 witness: a range was replaced by a new range, which is there with its
\* own retry counter while the old key is gone.
C25_Witness ==
    /\ hist.last_call =
           Some([event |-> Event("SignatureRangeRetried",
                                 <<SolanaSignatureRange(2, 0),
                                   Some(SolanaSignatureRange(1, 0))>>),
                 panicked |-> FALSE])
    /\ range_key(2, 0) \notin DOMAIN state.solana_signature_ranges
    /\ range_key(1, 0) \in DOMAIN state.solana_signature_ranges
    /\ state.solana_signature_ranges[range_key(1, 0)].retries = 0

\* ------------------------------------------- claims on the upgrade argument
ConfigFields ==
    {"solana_contract_address", "solana_initial_signature", "ecdsa_key_name",
     "minimum_withdrawal_amount"}

Config(st) == [f \in ConfigFields |-> st[f]]

\* The configuration that results from applying the provided fields.
Resulting(config, minter_arg) ==
    [f \in ConfigFields |->
        IF minter_arg # None /\ minter_arg[1][f] # None
        THEN minter_arg[1][f][1] ELSE config[f]]

\* Blank key name, empty contract address (both after trimming), empty
\* initial signature or zero minimum withdrawal amount.
FailsValidation(config) ==
    \/ config.ecdsa_key_name \in {"", " "}
    \/ config.solana_contract_address \in {"", " "}
    \/ config.solana_initial_signature = EmptySignature
    \/ config.minimum_withdrawal_amount = 0

\* The step is an upgrade with argument minter_arg.
Upgraded(minter_arg) ==
    /\ hist'.upgrades = hist.upgrades + 1
    /\ hist'.last_call[1].event = Event("Upgrade", minter_arg)

Rejected == hist'.last_call[1].panicked

UpgradeRejectedExactlyOnInvalidConfig ==
    \A minter_arg \in {None} \cup {Some(a) : a \in ConfigUpgradeArgs} :
        Upgraded(minter_arg) =>
            LET resulting == Resulting(Config(state), minter_arg)
            IN /\ Rejected <=> FailsValidation(resulting)
               /\ ~Rejected => Config(state') = resulting
               /\ Rejected => Config(state') = Config(state)

\* C26: an upgrade is rejected exactly when the configuration that results
\* from applying its provided fields fails validate_config (blank
\* ecdsa_key_name, empty solana_contract_address, empty
\* solana_initial_signature or zero minimum_withdrawal_amount); fields absent
\* from the upgrade argument keep their values, and when the upgrade is
\* rejected no configuration field of the state has changed.
C26_UpgradeRejectedExactlyOnInvalidConfig ==
    [][UpgradeRejectedExactlyOnInvalidConfig]_vars

\* C26 witness: after an upgrade had changed the key name, a second upgrade
\* that gave a valid contract address and a zero minimum amount was rejected,
\* and the configuration is the one the first upgrade left.
C26_Witness ==
    /\ hist.upgrades = 2
    /\ hist.last_call # None
    /\ hist.last_call[1].panicked
    /\ hist.last_call[1].event =
           Event("Upgrade", Some([solana_contract_address |-> Some("program_2"),
                                  solana_initial_signature |-> None,
                                  ecdsa_key_name |-> None,
                                  minimum_withdrawal_amount |-> Some(0)]))
    /\ state.ecdsa_key_name = "key_2"
    /\ state.solana_contract_address = "program_1"
    /\ state.minimum_withdrawal_amount = 1

\* ------------------------------------------- claims on the range resolver
Pending(key) == key \in DOMAIN state.solana_signature_ranges

RepliesTo(responses, index) ==
    {i \in DOMAIN responses : responses[i].id = index}

EntryIsReplyOfItsId(batch) ==
    \A index \in DOMAIN batch.signatures :
        /\ batch.signatures[index] \in DOMAIN batch.map
        /\ \E i \in RepliesTo(batch.responses, index) :
              batch.map[batch.signatures[index]] =
                  IF batch.responses[i].error # None
                  THEN [tag |-> "Err", value |-> batch.responses[i].error[1]]
                  ELSE [tag |-> "Ok", value |-> batch.responses[i].result]

\* C28: for every batch passed to get_transactions and every JSON-RPC batch
\* reply (in any order and of any length up to the batch size), the returned
\* map has exactly one entry per requested signature and that entry is the
\* result of the reply whose id equals the signature's position + 1 in the
\* request.
C28_MapEntryIsReplyOfItsId ==
    env.batch # None =>
        /\ DOMAIN env.batch[1].map = {env.batch[1].signatures[i] :
                                         i \in DOMAIN env.batch[1].signatures}
        /\ EntryIsReplyOfItsId(env.batch[1])

\* ------------------------------------- claims on the redeemed withdrawals
\* hist.entered holds, for each burn_id, the event that was recorded when the
\* burn_id entered withdrawal_burned_events.
SameWithdrawal(redeemed, entered) ==
    /\ redeemed.from_icp_address = entered.from_icp_address
    /\ redeemed.to_sol_address = entered.to_sol_address
    /\ redeemed.amount = entered.amount
    /\ redeemed.coupon # None
    /\ redeemed.coupon[1].signature.message =
           <<entered.burn_id, entered.to_sol_address, entered.amount>>

\* C29: for every withdrawal in withdrawal_redeemed_events, its principal,
\* recipient Solana address and amount equal those of the event that was
\* recorded for the same burn_id when it entered withdrawal_burned_events, so
\* a coupon never authorizes an amount or a recipient other than what was
\* burned.
C29_RedeemedEqualsBurned ==
    \A id \in DOMAIN Redeemed :
        /\ id \in DOMAIN hist.entered
        /\ SameWithdrawal(Redeemed[id], hist.entered[id])

\* C29 witness: two withdrawals with different recipients and amounts were
\* burned and redeemed.
C29_Witness ==
    /\ DOMAIN Redeemed = {0, 1}
    /\ Redeemed[0].to_sol_address # Redeemed[1].to_sol_address
    /\ Redeemed[0].amount # Redeemed[1].amount
    /\ Redeemed[0].coupon # None /\ Redeemed[1].coupon # None

\* ----------------------------------------------- claims on trigger_check
TwoOkCalls == hist.prev_ok # None /\ hist.last_ok # None

\* trigger_check has returned: hist holds a new result.
CheckReturned(result) ==
    /\ hist'.last_check # hist.last_check
    /\ hist'.last_check[1].result = result

\* A call that returns the error schedules no task and leaves LAST_CHECKED.
ErrorChangesNothing ==
    CheckReturned("last check was too recent")
        => /\ tasks' = tasks
           /\ env'.LAST_CHECKED = env.LAST_CHECKED

\* A call that returns Ok schedules a check and sets LAST_CHECKED.
OkSchedules ==
    CheckReturned("Ok")
        => /\ \E a \in Activations :
                 tasks.act[a].pos = 0 /\ tasks'.act[a] = [pos |-> 1, live |-> FALSE]
           /\ env'.LAST_CHECKED = env.time

\* C30 as stated: any two trigger_check calls that return Ok are more than
\* LAST_CHECK_MIN apart in canister time, and a call that returns the "last
\* check was too recent" error schedules no task and leaves LAST_CHECKED
\* unchanged.
C30_TriggerCheckRateLimitedAsStated ==
    /\ [](TwoOkCalls => hist.last_ok[1].at - hist.prev_ok[1].at > LAST_CHECK_MIN)
    /\ [][ErrorChangesNothing]_vars

\* C30 amended: two trigger_check calls that return Ok with no upgrade of the
\* canister between them are more than LAST_CHECK_MIN apart in canister time
\* (LAST_CHECKED starts again at 0 after an upgrade); a call that returns the
\* error schedules no task and leaves LAST_CHECKED unchanged, and a call that
\* returns Ok schedules a check and sets LAST_CHECKED to the time of the call.
C30_TriggerCheckRateLimited ==
    /\ [](TwoOkCalls /\ hist.last_ok[1].upgrades = hist.prev_ok[1].upgrades
             => hist.last_ok[1].at - hist.prev_ok[1].at > LAST_CHECK_MIN)
    /\ [][ErrorChangesNothing /\ OkSchedules]_vars

\* C30 witness: two calls returned Ok with no upgrade between them, and a
\* later call at a time within LAST_CHECK_MIN of the second returned the error.
C30_Witness ==
    /\ TwoOkCalls
    /\ hist.last_ok[1].upgrades = hist.prev_ok[1].upgrades
    /\ hist.last_check[1].result = "last check was too recent"
    /\ hist.last_check[1].at = hist.last_ok[1].at + LAST_CHECK_MIN

\* --------------------------------------------- claims on the proxy key
\* C31: whenever State.ecdsa_public_key is set, State.ecdsa_proxy_public_key
\* is set too or is eventually set by a later lazy_call_ecdsa_public_key
\* call: a failure of the proxy-key fetch that follows the committed
\* public-key write does not leave the proxy public key unset forever.
C31_ProxyKeyEventuallySet ==
    (state.ecdsa_public_key # None) ~> (state.ecdsa_proxy_public_key # None)

\* -------------------------------------------- claims on the idempotency key
\* rpc_call of caller r sends its request.
Sends(r) == env.rpcs[r].pc # "http_request" /\ env'.rpcs[r].pc = "http_request"

\* The request sent by a step is the one hist gained.
Sent == hist'.outcalls[Len(hist'.outcalls)]

\* A step that sends a request moves CHAIN_ID to the hash of its value and
\* the time and sends the encoding of the new value; CHAIN_ID moves in no
\* other step, so once in each rpc_call that sends and never in one that traps.
AdvancesOnceAndSendsIt ==
    /\ \A r \in Rpcs :
          Sends(r) =>
              /\ env'.CHAIN_ID = sha3_256(env.CHAIN_ID, env.time)
              /\ env'.CHAIN_ID # env.CHAIN_ID
              /\ Len(hist'.outcalls) = Len(hist.outcalls) + 1
              /\ Sent.idempotency_key = base64_url_encode(env'.CHAIN_ID)
    /\ env'.CHAIN_ID # env.CHAIN_ID =>
          /\ \E r \in Rpcs : Sends(r)
          /\ \A r, q \in Rpcs : Sends(r) /\ Sends(q) => r = q

\* No two requests of one lifetime carry the same idempotency-key.
KeysDiffer ==
    \A i, j \in DOMAIN hist.outcalls :
        (/\ i # j
         /\ hist.outcalls[i].upgrades = hist.outcalls[j].upgrades)
            => hist.outcalls[i].idempotency_key # hist.outcalls[j].idempotency_key

\* C32: every rpc_call advances CHAIN_ID exactly once to H(previous chain_id,
\* now) and sends the base64url of that new value as the idempotency-key, so
\* (taking H as injective) no two outcalls of one canister lifetime carry the
\* same idempotency key, including a retry of an outcall that failed.
C32_IdempotencyKeysNeverRepeat ==
    /\ [][AdvancesOnceAndSendsIt]_vars
    /\ []KeysDiffer

\* C32 witness: two requests were sent at the same canister time, the second
\* after the first had failed, and a third by a concurrent caller.
C32_Witness ==
    /\ Len(hist.outcalls) = 3
    /\ hist.outcalls[1].result = "RequestFailed"
    /\ hist.outcalls[2].at = hist.outcalls[1].at
    /\ hist.outcalls[2].result = "none" /\ hist.outcalls[3].result = "none"
    /\ \A i \in 1..3 : hist.outcalls[i].upgrades = hist.upgrades

====
